---- MODULE Spec2Model ----
(***************************************************************************)
(* The file-organization engine of invoice-sorter-api (class FileSystem):  *)
(* the directory tree on disk, the Collision Resolver, the Move Engine,    *)
(* and the operations sortFile, createNewFolder, undoPreviousAction and    *)
(* loadDirectoryPaths.                                                     *)
(*                                                                         *)
(* A JavaScript string is a sequence of one-character strings, so that the *)
(* regular expression and the substring arithmetic of the Collision        *)
(* Resolver are computed, not assumed.  A path is a sequence of            *)
(* components; `${a}/${b}` is Join(a, b).  Component names hold no "/".    *)
(***************************************************************************)
EXTENDS Integers, Sequences, FiniteSets, TLC

VARIABLES disk, phase, last, hist, inflight

vars == <<disk, phase, last, hist, inflight>>

-----------------------------------------------------------------------------
(* Bounds of the model. *)

\* Most regular files the tree may hold (a failed delete duplicates a file).
MaxFiles == 3

\* Most consecutive resolutions in one behaviour of SpecResolver.
MaxResolves == 3

\* Most consecutive moves in one behaviour of SpecMove.
MaxMoves == 2

\* Most entries of the inbox in SpecInbox.
MaxInbox == 3

\* Most undo requests made with one held record.
MaxUndos == 2

-----------------------------------------------------------------------------
(* Strings. *)

DigitChars == <<"0", "1", "2", "3", "4", "5", "6", "7", "8", "9">>

IsDigit(c) == \E i \in 1..Len(DigitChars) : DigitChars[i] = c

DigitValue(c) == (CHOOSE i \in 1..Len(DigitChars) : DigitChars[i] = c) - 1

\* parseInt on a string of decimal digits.
RECURSIVE parseInt(_)
parseInt(s) ==
    IF s = <<>> THEN 0
    ELSE 10 * parseInt(SubSeq(s, 1, Len(s) - 1)) + DigitValue(s[Len(s)])

\* Number-to-string conversion of a template literal, for n >= 0.
RECURSIVE NumberToString(_)
NumberToString(n) ==
    IF n < 10 THEN <<DigitChars[n + 1]>>
    ELSE NumberToString(n \div 10) \o <<DigitChars[(n % 10) + 1]>>

\* End of the longest run of digits of s that starts at index i (i - 1 if none).
RECURSIVE DigitRunEnd(_, _)
DigitRunEnd(s, i) ==
    IF i <= Len(s) /\ IsDigit(s[i]) THEN DigitRunEnd(s, i + 1) ELSE i - 1

\* copyPattern = /\((\d+)\)/ matches at index i of s.
CopyPatternAt(s, i) ==
    /\ i <= Len(s)
    /\ s[i] = "("
    /\ LET e == DigitRunEnd(s, i + 1)
       IN  /\ e >= i + 1
           /\ e + 1 <= Len(s)
           /\ s[e + 1] = ")"

\* copyPattern.test(s)
CopyPatternTest(s) == \E i \in 1..Len(s) : CopyPatternAt(s, i)

\* Mutant: the copy number is raised by two.
CopyPatternIncrementByTwo(s) ==
    LET i == CHOOSE k \in 1..Len(s) :
                 CopyPatternAt(s, k) /\ \A j \in 1..(k - 1) : ~CopyPatternAt(s, j)
        e == DigitRunEnd(s, i + 1)
    IN  SubSeq(s, 1, i) \o NumberToString(parseInt(SubSeq(s, i + 1, e)) + 2)
            \o SubSeq(s, e + 1, Len(s))

\* s.replace(copyPattern, (_, n) => `(${parseInt(n) + 1})`): the leftmost match only.
CopyPatternIncrement(s) ==
    LET i == CHOOSE k \in 1..Len(s) :
                 CopyPatternAt(s, k) /\ \A j \in 1..(k - 1) : ~CopyPatternAt(s, j)
        e == DigitRunEnd(s, i + 1)
    IN  SubSeq(s, 1, i) \o NumberToString(parseInt(SubSeq(s, i + 1, e)) + 1)
            \o SubSeq(s, e + 1, Len(s))

\* s.lastIndexOf('.'), 0-based, -1 when s holds no dot.
LastIndexOfDot(s) ==
    IF \E i \in 1..Len(s) : s[i] = "."
    THEN (CHOOSE i \in 1..Len(s) : s[i] = "." /\ \A j \in (i + 1)..Len(s) : s[j] # ".") - 1
    ELSE -1

\* s.substring(0, end): a negative end counts as 0.
Substring0(s, end) == SubSeq(s, 1, IF end < 0 THEN 0 ELSE end)

\* Mutant: the numbering of copies starts at 1.
CopySuffixFromOne == <<" ", "(", "1", ")", ".", "p", "d", "f">>

CopySuffix == <<" ", "(", "2", ")", ".", "p", "d", "f">>

\* Mutant: a first copy keeps the extension of the name.
NextCopyNameKeepsExtension(invoiceName) ==
    IF ~CopyPatternTest(invoiceName)
    THEN Substring0(invoiceName, LastIndexOfDot(invoiceName))
             \o <<" ", "(", "2", ")">>
             \o (IF LastIndexOfDot(invoiceName) < 0 THEN <<>>
                 ELSE SubSeq(invoiceName, LastIndexOfDot(invoiceName) + 1, Len(invoiceName)))
    ELSE CopyPatternIncrement(invoiceName)

\* One turn of the renaming loop of _checkInvoiceFileName.
NextCopyName(invoiceName) ==
    IF ~CopyPatternTest(invoiceName)
    THEN Substring0(invoiceName, LastIndexOfDot(invoiceName)) \o CopySuffix
    ELSE CopyPatternIncrement(invoiceName)

\* String(undefined), as a template literal renders a missing field.
Undefined == <<"u", "n", "d", "e", "f", "i", "n", "e", "d">>

-----------------------------------------------------------------------------
(* Paths and the directory tree. *)

\* The two configured roots of the namespace.
invoiceFolderPath == << <<"i", "n", "v">> >>
directoriesFolderPath == << <<"d", "i", "r">> >>

\* An interpolated name as the operating system reads it: "/" separates
\* components.
RECURSIVE SplitName(_)
SplitName(s) ==
    IF \A i \in 1..Len(s) : s[i] # "/" THEN <<s>>
    ELSE LET k == CHOOSE i \in 1..Len(s) : s[i] = "/" /\ \A j \in 1..(i - 1) : s[j] # "/"
         IN  <<SubSeq(s, 1, k - 1)>> \o SplitName(SubSeq(s, k + 1, Len(s)))

RECURSIVE Components(_)
Components(p) == IF p = <<>> THEN <<>> ELSE SplitName(p[1]) \o Components(Tail(p))

\* A path as the operating system resolves it: empty components drop out.
Norm(p) == SelectSeq(Components(p), LAMBDA c : c # <<>>)

\* `${a}/${b}`
Join(a, b) == a \o b

Parent(p) == SubSeq(p, 1, Len(p) - 1)

Dir == "dir"

IsFile(d, p) == p \in DOMAIN d /\ d[p] # Dir
IsDir(d, p) == p \in DOMAIN d /\ d[p] = Dir

Children(d, p) == {q \in DOMAIN d : Len(q) = Len(p) + 1 /\ Parent(q) = p}

FilePaths(d) == {p \in DOMAIN d : d[p] # Dir}

Put(d, p, v) == [q \in DOMAIN d \cup {p} |-> IF q = p THEN v ELSE d[q]]

Drop(d, p) == [q \in DOMAIN d \ {p} |-> d[q]]

-----------------------------------------------------------------------------
(* Values of the JavaScript side. *)

\* null and undefined, where the code returns or holds no value.
Nothing == <<>>

\* A message is a sequence of parts; a part is a template followed by the
\* values interpolated into it.
Msg1(t) == << <<t>> >>
Msg2(t, a) == << <<t, a>> >>
Msg3(t, a, b) == << <<t, a, b>> >>

\* An Error: fs rejections carry a code, `new Error(...)` carries none.
NoCode == "none"
Err(code, message, cause) == [code |-> code, message |-> message, cause |-> cause]

\* What a method call produced: an array it returned, nothing at all (it ran
\* off its end), or an exception that left it.
Returned(val) == [kind |-> "return", val |-> val]
RanOff == [kind |-> "undefined", val |-> <<>>]
Threw == [kind |-> "throw", val |-> <<>>]

-----------------------------------------------------------------------------
(* fs/promises.  Each primitive resolves (ok) or rejects with an Error; a    *)
(* primitive named in `faults` is refused by the operating system.           *)

Ok(d) == [ok |-> TRUE, disk |-> d, err |-> Err(NoCode, Nothing, NoCode)]
Rejects(d, code, call) ==
    [ok |-> FALSE, disk |-> d, err |-> Err(code, Msg3("${code}: ${syscall}", code, call), NoCode)]

fsAccess(d, path) == Norm(path) \in DOMAIN d

fsMkdir(d, path, faults) ==
    LET p == Norm(path)
    IN  IF "mkdir" \in faults THEN Rejects(d, "EACCES", "mkdir")
        ELSE IF p \in DOMAIN d THEN Rejects(d, "EEXIST", "mkdir")
        ELSE IF ~IsDir(d, Parent(p)) THEN Rejects(d, "ENOENT", "mkdir")
        ELSE Ok(Put(d, p, Dir))

\* Mutant: the copy does not carry the content of the source.
CopyFileLosesContent(d, src, dest, faults) ==
    LET s == Norm(src)
        t == Norm(dest)
    IN  IF "copyFile" \in faults THEN Rejects(d, "EACCES", "copyfile")
        ELSE IF s \notin DOMAIN d THEN Rejects(d, "ENOENT", "copyfile")
        ELSE IF IsDir(d, s) \/ IsDir(d, t) THEN Rejects(d, "EISDIR", "copyfile")
        ELSE IF ~IsDir(d, Parent(t)) THEN Rejects(d, "ENOENT", "copyfile")
        ELSE Ok(Put(d, t, "empty"))

\* copyFile replaces an existing destination file (no COPYFILE_EXCL is passed).
fsCopyFile(d, src, dest, faults) ==
    LET s == Norm(src)
        t == Norm(dest)
    IN  IF "copyFile" \in faults THEN Rejects(d, "EACCES", "copyfile")
        ELSE IF s \notin DOMAIN d THEN Rejects(d, "ENOENT", "copyfile")
        ELSE IF IsDir(d, s) \/ IsDir(d, t) THEN Rejects(d, "EISDIR", "copyfile")
        ELSE IF ~IsDir(d, Parent(t)) THEN Rejects(d, "ENOENT", "copyfile")
        ELSE Ok(Put(d, t, d[s]))

\* Mutant: rm resolves and leaves the file in place.
RmLeavesFile(d, path, faults) ==
    LET p == Norm(path)
    IN  IF "rm" \in faults THEN Rejects(d, "EACCES", "rm")
        ELSE IF p \notin DOMAIN d THEN Rejects(d, "ENOENT", "rm")
        ELSE IF IsDir(d, p) THEN Rejects(d, "ERR_FS_EISDIR", "rm")
        ELSE Ok(d)

fsRm(d, path, faults) ==
    LET p == Norm(path)
    IN  IF "rm" \in faults THEN Rejects(d, "EACCES", "rm")
        ELSE IF p \notin DOMAIN d THEN Rejects(d, "ENOENT", "rm")
        ELSE IF IsDir(d, p) THEN Rejects(d, "ERR_FS_EISDIR", "rm")
        ELSE Ok(Drop(d, p))

\* Mutant: a removal that takes the folder's contents with it.
RmdirRecursive(d, path, faults) ==
    LET p == Norm(path)
    IN  IF "rmdir" \in faults THEN Rejects(d, "EACCES", "rmdir")
        ELSE IF p \notin DOMAIN d THEN Rejects(d, "ENOENT", "rmdir")
        ELSE IF ~IsDir(d, p) THEN Rejects(d, "ENOTDIR", "rmdir")
        ELSE Ok([q \in {r \in DOMAIN d : Len(r) < Len(p) \/ SubSeq(r, 1, Len(p)) # p} |-> d[q]])

fsRmdir(d, path, faults) ==
    LET p == Norm(path)
    IN  IF "rmdir" \in faults THEN Rejects(d, "EACCES", "rmdir")
        ELSE IF p \notin DOMAIN d THEN Rejects(d, "ENOENT", "rmdir")
        ELSE IF ~IsDir(d, p) THEN Rejects(d, "ENOTDIR", "rmdir")
        ELSE IF Children(d, p) # {} THEN Rejects(d, "ENOTEMPTY", "rmdir")
        ELSE Ok(Drop(d, p))

-----------------------------------------------------------------------------
(* class FileSystem.  A method is an operator from the tree it finds to the  *)
(* tree it leaves and the value it returns.                                  *)

Out(d, ret) == [disk |-> d, ret |-> ret]

_checkPath(d, path) == fsAccess(d, path)

\* Mutant: the last path of pathArray that does not exist is reported.
ValidatePathsReportsLast(d, pathArray) ==
    IF \E i \in 1..Len(pathArray) : ~_checkPath(d, pathArray[i])
    THEN <<FALSE, pathArray[CHOOSE i \in 1..Len(pathArray) :
                                /\ ~_checkPath(d, pathArray[i])
                                /\ \A j \in (i + 1)..Len(pathArray) : _checkPath(d, pathArray[j])]>>
    ELSE <<TRUE, Nothing>>

\* Mutant: only the first path of pathArray is checked.
ValidateFirstPathOnly(d, pathArray) ==
    IF ~_checkPath(d, pathArray[1]) THEN <<FALSE, pathArray[1]>> ELSE <<TRUE, Nothing>>

\* The first path of pathArray that does not exist, if any.
_validatePaths(d, pathArray) ==
    IF \E i \in 1..Len(pathArray) : ~_checkPath(d, pathArray[i])
    THEN <<FALSE, pathArray[CHOOSE i \in 1..Len(pathArray) :
                                /\ ~_checkPath(d, pathArray[i])
                                /\ \A j \in 1..(i - 1) : _checkPath(d, pathArray[j])]>>
    ELSE <<TRUE, Nothing>>

\* Mutant: the source is copied and never deleted.
MoveWithoutDelete(d, sourcePath, destinationPath, faults) ==
    IF ~_checkPath(d, sourcePath) THEN Out(d, <<FALSE, Msg1("SourcePathInvalid")>>)
    ELSE IF _checkPath(d, destinationPath)
    THEN Out(d, <<FALSE, Msg1("DestinationPathAlreadyInUse")>>)
    ELSE LET copied == fsCopyFile(d, sourcePath, destinationPath, faults)
         IN  IF ~copied.ok THEN Out(d, <<FALSE, copied.err.message>>)
             ELSE Out(copied.disk, <<TRUE, Nothing>>)

\* Mutant: the destination is checked before the source.
MoveChecksDestinationFirst(d, sourcePath, destinationPath, faults) ==
    IF _checkPath(d, destinationPath)
    THEN Out(d, <<FALSE, Msg1("DestinationPathAlreadyInUse")>>)
    ELSE IF ~_checkPath(d, sourcePath) THEN Out(d, <<FALSE, Msg1("SourcePathInvalid")>>)
    ELSE LET copied == fsCopyFile(d, sourcePath, destinationPath, faults)
         IN  IF ~copied.ok THEN Out(d, <<FALSE, copied.err.message>>)
             ELSE LET removed == fsRm(copied.disk, sourcePath, faults)
                  IN  IF ~removed.ok THEN Out(copied.disk, <<FALSE, removed.err.message>>)
                      ELSE Out(removed.disk, <<TRUE, Nothing>>)

_moveFile(d, sourcePath, destinationPath, faults) ==
    IF ~_checkPath(d, sourcePath) THEN Out(d, <<FALSE, Msg1("SourcePathInvalid")>>)
    ELSE IF _checkPath(d, destinationPath)
    THEN Out(d, <<FALSE, Msg1("DestinationPathAlreadyInUse")>>)
    ELSE LET copied == fsCopyFile(d, sourcePath, destinationPath, faults)
         IN  IF ~copied.ok THEN Out(d, <<FALSE, copied.err.message>>)
             ELSE LET removed == fsRm(copied.disk, sourcePath, faults)
                  IN  IF ~removed.ok THEN Out(copied.disk, <<FALSE, removed.err.message>>)
                      ELSE Out(removed.disk, <<TRUE, Nothing>>)

\* Mutant: the year folder is created whether or not it exists.
YearFolderAlwaysCreated(d, directoryFolderPath, year, faults) ==
    LET directoryYearPath == Join(directoryFolderPath, <<year>>)
        made == fsMkdir(d, directoryYearPath, faults)
    IN  IF ~made.ok THEN Out(d, <<FALSE, made.err.message>>)
        ELSE Out(made.disk, <<TRUE, directoryYearPath>>)

_checkForYearFolder(d, directoryFolderPath, year, faults) ==
    LET directoryYearPath == Join(directoryFolderPath, <<year>>)
    IN  IF ~_checkPath(d, directoryYearPath)
        THEN LET made == fsMkdir(d, directoryYearPath, faults)
             IN  IF ~made.ok THEN Out(d, <<FALSE, made.err.message>>)
                 ELSE Out(made.disk, <<TRUE, directoryYearPath>>)
        ELSE Out(d, <<TRUE, directoryYearPath>>)

\* fileStream.toString('base64'): the bytes of the file in their encoded form.
Base64(content) == <<"base64", content>>

\* An exception that leaves a method, with the Error it carries.
ThrewError(error) == [kind |-> "throw", val |-> error]

\* Mutant: the first entry of the listing is taken, file or not.
FirstEntry(d, invoiceFolder, offset) ==
    IF Len(invoiceFolder) <= offset
    THEN ThrewError(Err(NoCode, Msg1("No Valid Files Within Invoice Directory."), NoCode))
    ELSE LET invoiceName == invoiceFolder[offset + 1]
             invoicePath == Norm(Join(invoiceFolderPath, <<invoiceName>>))
         IN  Returned(<<invoiceName, Base64(d[invoicePath])>>)

\* The do-while loop of getInvoice, from `offset` on, and the read that follows.
RECURSIVE FirstFile(_, _, _)
FirstFile(d, invoiceFolder, offset) ==
    IF Len(invoiceFolder) <= offset
    THEN ThrewError(Err(NoCode, Msg1("No Valid Files Within Invoice Directory."), NoCode))
    ELSE LET invoiceName == invoiceFolder[offset + 1]
             invoicePath == Norm(Join(invoiceFolderPath, <<invoiceName>>))
         IN  IF ~IsFile(d, invoicePath) THEN FirstFile(d, invoiceFolder, offset + 1)
             ELSE Returned(<<invoiceName, Base64(d[invoicePath])>>)

\* invoiceFolder is what fs.readdir listed for the inbox.
getInvoice(d, invoiceFolder) == Out(d, FirstFile(d, invoiceFolder, 0))

\* Mutant: the renamed path is not checked again.
RenameOnce(d, folderPath, invoiceName) ==
    <<Join(folderPath, <<NextCopyName(invoiceName)>>), NextCopyName(invoiceName)>>

\* The do-while loop of _checkInvoiceFileName, entered once the name is taken.
RECURSIVE RenameUntilFree(_, _, _)
RenameUntilFree(d, folderPath, invoiceName) ==
    LET renamed == NextCopyName(invoiceName)
        newInvoicePath == Join(folderPath, <<renamed>>)
    IN  IF _checkPath(d, newInvoicePath)
        THEN RenameUntilFree(d, folderPath, renamed)
        ELSE <<newInvoicePath, renamed>>

\* Mutant: the name is returned as given, taken or not.
NeverRename(d, folderPath, invoiceName) ==
    <<Join(folderPath, <<invoiceName>>), invoiceName>>

\* Mutant: the name is renamed although its path is free.
RenameAlways(d, folderPath, invoiceName) == RenameUntilFree(d, folderPath, invoiceName)

_checkInvoiceFileName(d, folderPath, invoiceName) ==
    LET newInvoicePath == Join(folderPath, <<invoiceName>>)
    IN  IF ~_checkPath(d, newInvoicePath) THEN <<newInvoicePath, invoiceName>>
        ELSE RenameUntilFree(d, folderPath, invoiceName)

\* The catch block of sortFile.
TransferFailed(queries, newInvoiceName) ==
    <<FALSE,
      Msg3("Transfer Failed - ${invoiceName} failed to transfer to ${directoryName}.",
           queries.invoiceName, queries.directoryName)
      \o (IF newInvoiceName # Nothing /\ newInvoiceName # queries.invoiceName
          THEN Msg3("\nAttempted to rename ${invoiceName} to ${newInvoiceName}.",
                    queries.invoiceName, newInvoiceName)
          ELSE <<>>)>>

\* The causes the switch statements of sortFile and undoPreviousAction name.
SwitchCases ==
    {Msg1("SourcePathInvalid"), Msg1("DestinationPathAlreadyInUse"),
     Msg1("failedToCopyFile"), Msg1("failedToDeleteFile")}

\* What sortFile returns once _moveFile has returned `moved`.
SortAfterMove(queries, newInvoiceName, moved) ==
    IF moved[1]
    THEN Returned(<<TRUE,
                    Msg3("Transfer Successful - ${newInvoiceName} moved to ${directoryName}.",
                         newInvoiceName, queries.directoryName),
                    [oldInvoiceName |-> queries.invoiceName,
                     newInvoiceName |-> newInvoiceName,
                     directoryFolderPath |-> queries.directoryFolderPath,
                     directoryName |-> queries.directoryName,
                     year |-> queries.year]>>)
    ELSE IF moved[2] \in SwitchCases
    THEN Returned(TransferFailed(queries, newInvoiceName))
    ELSE RanOff

sortFile(d, queries, faults) ==
    LET invoiceName == queries.invoiceName
        invoiceFilePath == Join(invoiceFolderPath, <<invoiceName>>)
        directoryFolderAbsolutePath == Join(directoriesFolderPath, queries.directoryFolderPath)
        valid == _validatePaths(d, <<directoryFolderAbsolutePath, invoiceFilePath>>)
    IN  IF ~valid[1] THEN Out(d, Returned(TransferFailed(queries, Nothing)))
        ELSE
        LET yearFolder == _checkForYearFolder(d, directoryFolderAbsolutePath, queries.year, faults)
        IN  IF ~yearFolder.ret[1] THEN Out(yearFolder.disk, Returned(TransferFailed(queries, Nothing)))
            ELSE
            LET resolved == _checkInvoiceFileName(yearFolder.disk, yearFolder.ret[2], invoiceName)
                moved == _moveFile(yearFolder.disk, invoiceFilePath, resolved[1], faults)
            IN  Out(moved.disk, SortAfterMove(queries, resolved[2], moved.ret))

\* Mutant: the catch block does not tell the conflict from another failure.
CreateNewFolderCauseLost(d, requestQueryParameters, faults) ==
    LET directoryFolderName == requestQueryParameters.directoryFolderName
        letterFolder == requestQueryParameters.letterFolder
        newDirectoryFolderPath ==
            Join(Join(directoriesFolderPath, <<letterFolder>>), <<directoryFolderName>>)
        made == fsMkdir(d, newDirectoryFolderPath, faults)
    IN  IF _checkPath(d, newDirectoryFolderPath) \/ ~made.ok
        THEN Out(d, Returned(
                 <<FALSE, Msg2("Initialization Failed - Failed to create ${directoryFolderName} folder.",
                               directoryFolderName)>>))
        ELSE Out(made.disk, Returned(
                 <<TRUE,
                   Msg2("Initialization Successful - Directory ${directoryFolderName} Was Created.",
                        directoryFolderName),
                   [directoryName |-> directoryFolderName, letterFolder |-> letterFolder]>>))

\* The three returns of createNewFolder.
CreateFolderReturn(requestQueryParameters, outcome) ==
    LET directoryFolderName == requestQueryParameters.directoryFolderName
    IN  IF outcome = "conflict"
        THEN Returned(
                 <<FALSE, Msg2("Initialization Failed - Directory ${directoryFolderName} Already Exists!",
                               directoryFolderName)>>)
        ELSE IF outcome = "failed"
        THEN Returned(
                 <<FALSE, Msg2("Initialization Failed - Failed to create ${directoryFolderName} folder.",
                               directoryFolderName)>>)
        ELSE Returned(
                 <<TRUE,
                   Msg2("Initialization Successful - Directory ${directoryFolderName} Was Created.",
                        directoryFolderName),
                   [directoryName |-> directoryFolderName,
                    letterFolder |-> requestQueryParameters.letterFolder]>>)

createNewFolder(d, requestQueryParameters, faults) ==
    LET newDirectoryFolderPath ==
            Join(Join(directoriesFolderPath, <<requestQueryParameters.letterFolder>>),
                 <<requestQueryParameters.directoryFolderName>>)
    IN  IF _checkPath(d, newDirectoryFolderPath)
        THEN Out(d, CreateFolderReturn(requestQueryParameters, "conflict"))
        ELSE
        LET made == fsMkdir(d, newDirectoryFolderPath, faults)
        IN  IF ~made.ok THEN Out(d, CreateFolderReturn(requestQueryParameters, "failed"))
            ELSE Out(made.disk, CreateFolderReturn(requestQueryParameters, "created"))

\* undoInfoObj.<field>: a field the parsed object lacks reads as undefined.
NameField(obj, f) == IF f \in DOMAIN obj THEN obj[f] ELSE Undefined
PathField(obj, f) == IF f \in DOMAIN obj THEN obj[f] ELSE <<Undefined>>

\* Mutant: the catch block reports the failure without the error's own message.
UndoFailedWithoutCause(action, undoInfoObj, error) ==
    <<FALSE,
      Msg2("Undo Action Failed - Failed to undo ${action}.", action)
      \o (IF error.code = "ENOTEMPTY"
          THEN Msg2("\nFolder ${undoInfoObj.directoryFolderPath} is not empty.",
                    PathField(undoInfoObj, "directoryFolderPath"))
          ELSE <<>>)>>

\* The catch block of undoPreviousAction.
UndoFailed(action, undoInfoObj, error) ==
    <<FALSE,
      Msg2("Undo Action Failed - Failed to undo ${action}.", action)
      \o (IF error.code = "ENOTEMPTY"
          THEN Msg2("\nFolder ${undoInfoObj.directoryFolderPath} is not empty.",
                    PathField(undoInfoObj, "directoryFolderPath"))
          ELSE <<>>)
      \o (IF error.code = NoCode THEN Msg1("\n") \o error.message ELSE <<>>)>>

\* Mutant: the invoice goes back under the name it was filed under.
RestoredNameAsFiled(newInvoiceName, oldInvoiceName) == newInvoiceName

\* The name an undone transfer asks the inbox for.
RestoredName(newInvoiceName, oldInvoiceName) ==
    IF newInvoiceName = oldInvoiceName THEN newInvoiceName ELSE oldInvoiceName

\* Mutant: the undo looks no further than the letter folder of the record.
DirectoryNameDropped(undoInfoObj) ==
    Join(directoriesFolderPath, <<NameField(undoInfoObj, "letterFolder")>>)

\* The folder an undo of a folder creation removes.
DirectoryToBeRemoved(undoInfoObj) ==
    Join(Join(directoriesFolderPath, <<NameField(undoInfoObj, "letterFolder")>>),
         <<NameField(undoInfoObj, "directoryName")>>)

\* What the 'Folder Creation' branch returns: the folder is missing, fs.rmdir
\* rejected with `error`, or the folder is removed.
UndoFolderReturn(requestQueryParameters, outcome, error) ==
    LET action == requestQueryParameters.action
        undoInfoObj == requestQueryParameters.undoInfo.obj
        letterFolder == NameField(undoInfoObj, "letterFolder")
        directoryName == NameField(undoInfoObj, "directoryName")
    IN  IF outcome = "missing"
        THEN Returned(UndoFailed(action, undoInfoObj,
                 Err(NoCode,
                     Msg3("Folder ${directoryName} does not exists within the ${letterFolder} directory.",
                          directoryName, letterFolder),
                     "invalidPath")))
        ELSE IF outcome = "refused"
        THEN Returned(UndoFailed(action, undoInfoObj, error))
        ELSE Returned(
                 <<TRUE,
                   Msg3("Undo Action Successful - ${action} has successfully been undone. Directory ${directoryName} has been successfully removed.",
                        action, directoryName),
                   requestQueryParameters.actionId>>)

\* The filed invoice an undo of a transfer takes back.
InvoiceToBeRemoved(undoInfoObj) ==
    Join(Join(Join(directoriesFolderPath, PathField(undoInfoObj, "directoryFolderPath")),
              <<NameField(undoInfoObj, "year")>>),
         <<NameField(undoInfoObj, "newInvoiceName")>>)

\* The name the 'File Transfer' branch asks the inbox for.
InvoiceFileName(undoInfoObj) ==
    RestoredName(NameField(undoInfoObj, "newInvoiceName"), NameField(undoInfoObj, "oldInvoiceName"))

\* What the 'File Transfer' branch returns once _moveFile has returned `moved`.
UndoAfterMove(requestQueryParameters, uniqueInvoiceName, moved) ==
    LET action == requestQueryParameters.action
        actionId == requestQueryParameters.actionId
        undoInfoObj == requestQueryParameters.undoInfo.obj
        newInvoiceName == NameField(undoInfoObj, "newInvoiceName")
        directoryName == NameField(undoInfoObj, "directoryName")
        invoiceFileName == InvoiceFileName(undoInfoObj)
        cause == moved[2]
    IN  IF moved[1]
        THEN Returned(
                 <<TRUE,
                   Msg3("Undo Action Successful - ${action} has successfully been undone. File ${newInvoiceName} has been successfully removed from ${directoryName}.",
                        action, <<newInvoiceName, directoryName>>)
                   \o (IF invoiceFileName # uniqueInvoiceName
                       THEN Msg3("\nReturned invoice has been renamed from ${invoiceFileName} to ${uniqueInvoiceName}.",
                                 invoiceFileName, uniqueInvoiceName)
                       ELSE <<>>),
                   actionId>>)
        ELSE IF cause = Msg1("SourcePathInvalid")
        THEN Returned(UndoFailed(action, undoInfoObj,
                 Err(NoCode,
                     Msg3("Invoice ${newInvoiceName} was not found in directory ${directoryName}.",
                          newInvoiceName, directoryName),
                     NoCode)))
        ELSE IF cause = Msg1("DestinationPathAlreadyInUse")
        THEN Returned(UndoFailed(action, undoInfoObj,
                 Err(NoCode,
                     Msg2("Invoice directory already contains a ${undoInfoObj.uniqueInvoiceName} invoice file.",
                          NameField(undoInfoObj, "uniqueInvoiceName")),
                     NoCode)))
        ELSE IF cause = Msg1("failedToCopyFile")
        THEN Returned(UndoFailed(action, undoInfoObj,
                 Err(NoCode,
                     Msg3("Failed to transfer invoice ${newInvoiceName} back to invoice directory from ${directoryName}.",
                          newInvoiceName, directoryName),
                     NoCode)))
        ELSE IF cause = Msg1("failedToDeleteFile")
        THEN Returned(UndoFailed(action, undoInfoObj,
                 Err(NoCode,
                     Msg3("Failed to delete invoice ${newInvoiceName} from ${directoryName}.",
                          newInvoiceName, directoryName),
                     NoCode)))
        ELSE Returned(<<TRUE, Nothing, actionId>>)

undoPreviousAction(d, requestQueryParameters, faults) ==
    LET action == requestQueryParameters.action
        undoInfo == requestQueryParameters.undoInfo
        undoInfoObj == undoInfo.obj
    IN  IF ~undoInfo.parses THEN Out(d, Threw)
        ELSE IF action = "Folder Creation"
        THEN IF ~_checkPath(d, DirectoryToBeRemoved(undoInfoObj))
             THEN Out(d, UndoFolderReturn(requestQueryParameters, "missing", Nothing))
             ELSE
             LET removed == fsRmdir(d, DirectoryToBeRemoved(undoInfoObj), faults)
             IN  IF ~removed.ok
                 THEN Out(d, UndoFolderReturn(requestQueryParameters, "refused", removed.err))
                 ELSE Out(removed.disk, UndoFolderReturn(requestQueryParameters, "removed", Nothing))
        ELSE IF action = "File Transfer"
        THEN LET resolved == _checkInvoiceFileName(d, invoiceFolderPath, InvoiceFileName(undoInfoObj))
                 moved == _moveFile(d, InvoiceToBeRemoved(undoInfoObj), resolved[1], faults)
             IN  Out(moved.disk, UndoAfterMove(requestQueryParameters, resolved[2], moved.ret))
        ELSE Out(d, Returned(<<TRUE, Nothing, requestQueryParameters.actionId>>))

-----------------------------------------------------------------------------
(* Startup. *)

alphabetArray ==
    <<"A", "B", "C", "D", "E", "F", "G", "H", "I", "J", "K", "L", "M",
      "N", "O", "P", "Q", "R", "S", "T", "U", "V", "W", "X", "Y", "Z">>

\* alphabetArray.map(letter => `${this._directoriesFolderPath}/${letter}`)
letterFoldersPathArray(directoriesPathString) ==
    [i \in 1..Len(alphabetArray) |-> Join(directoriesPathString, << <<alphabetArray[i]>> >>)]

\* The two roots are the fields loadDirectoryPaths has just assigned.
_validateMainDirectories(d, invoicePathString, directoriesPathString) ==
    LET isDirectoriesFoldersPathValid == _checkPath(d, directoriesPathString)
        isInvoiceFolderPathValid == _checkPath(d, invoicePathString)
    IN  IF isDirectoriesFoldersPathValid /\ isInvoiceFolderPathValid
        THEN <<TRUE, Msg1("All Main Directory Paths are valid for ${this._fileSystemName}.")>>
        ELSE <<FALSE,
               Msg1("Invalid Paths:\n")
               \o (IF ~isInvoiceFolderPathValid
                   THEN Msg1("${this._fileSystemName} - Invoice Directory Path ${this._invoiceFolderPath} is invalid!\n")
                   ELSE <<>>)
               \o (IF ~isDirectoriesFoldersPathValid
                   THEN Msg1("${this._fileSystemName} - Directories Folder Path ${this._directoriesFolderPath} is invalid!\n")
                   ELSE <<>>)>>

\* Mutant: a do-while loop that creates a letter folder before it validates.
CreateBeforeValidate(d, directoriesPathString, faults) ==
    LET made == fsMkdir(d, letterFoldersPathArray(directoriesPathString)[1], faults)
    IN  IF ~made.ok THEN Out(d, <<FALSE, made.err.message>>)
        ELSE Out(made.disk, <<TRUE, Msg1("All Letter Folders are initialized for ${this._fileSystemName}.")>>)

\* The do-while loop: create the first missing letter folder, validate again.
RECURSIVE _validateLetterFolders(_, _, _)
_validateLetterFolders(d, directoriesPathString, faults) ==
    LET validated == _validatePaths(d, letterFoldersPathArray(directoriesPathString))
    IN  IF validated[1]
        THEN Out(d, <<TRUE, Msg1("All Letter Folders are initialized for ${this._fileSystemName}.")>>)
        ELSE LET made == fsMkdir(d, validated[2], faults)
             IN  IF ~made.ok THEN Out(d, <<FALSE, made.err.message>>)
                 ELSE _validateLetterFolders(made.disk, directoriesPathString, faults)

loadDirectoryPaths(d, invoicePathString, directoriesPathString, faults) ==
    LET main == _validateMainDirectories(d, invoicePathString, directoriesPathString)
    IN  IF ~main[1] THEN Out(d, Returned([valid |-> FALSE, message |-> main[2]]))
        ELSE LET letters == _validateLetterFolders(d, directoriesPathString, faults)
             IN  IF ~letters.ret[1]
                 THEN Out(letters.disk, Returned([valid |-> FALSE, message |-> letters.ret[2]]))
                 ELSE Out(letters.disk,
                          Returned([valid |-> TRUE,
                                    message |-> main[2] \o Msg1("\n") \o letters.ret[2] \o Msg1("\n")]))

-----------------------------------------------------------------------------
(* The names and trees the model draws its inputs from. *)

NameA == <<"a", ".", "p", "d", "f">>
NameA2 == <<"a", " ", "(", "2", ")", ".", "p", "d", "f">>
NameA3 == <<"a", " ", "(", "3", ")", ".", "p", "d", "f">>
NameN9 == <<"n", "(", "9", ")">>
NameN10 == <<"n", "(", "1", "0", ")">>

LetterA == <<"A">>
CategoryAc == <<"A", "c">>
CategoryBb == <<"B", "b">>
CategoryCc == <<"C", "c">>
Year24 == <<"2", "4">>

\* The category folder and the year folder the requests of the model address.
CategoryPath == <<LetterA, CategoryAc>>
YearFolder == Join(Join(directoriesFolderPath, CategoryPath), <<Year24>>)

\* Letter folders that may be missing when the service starts.
MissingAtStart == {"B", "Z"}

\* The tree with the two roots, the letter folders but those of `missing`, and
\* the category folder A/Ac.
BaseTree(missing) ==
    LET present == {Join(directoriesFolderPath, << <<alphabetArray[i]>> >>) :
                        i \in {j \in 1..Len(alphabetArray) : alphabetArray[j] \notin missing}}
        dirs == {<<>>, invoiceFolderPath, directoriesFolderPath,
                 Join(directoriesFolderPath, CategoryPath)} \cup present
    IN  [p \in dirs |-> Dir]

\* d with the files of `entries` (pairs <<name, content>>) added to `folder`.
RECURSIVE WithFiles(_, _, _)
WithFiles(d, folder, entries) ==
    IF entries = {} THEN d
    ELSE LET e == CHOOSE x \in entries : TRUE
         IN  WithFiles(Put(d, Join(folder, <<e[1]>>), e[2]), folder, entries \ {e})

InitialInboxes == {{}, {<<NameA, "x">>}}

\* The year folder at the start: absent, or holding these files.
InitialArchives == {{}, {<<NameA, "y">>}, {<<NameA, "y">>, <<NameA2, "z">>}}

InitialTrees ==
    {WithFiles(IF archive = {} THEN WithFiles(BaseTree(missing), invoiceFolderPath, inbox)
               ELSE WithFiles(Put(WithFiles(BaseTree(missing), invoiceFolderPath, inbox),
                                  YearFolder, Dir),
                              YearFolder, archive),
               invoiceFolderPath, {}) :
        <<missing, inbox, archive>> \in
            {t \in (SUBSET MissingAtStart) \X InitialInboxes \X InitialArchives :
                 Cardinality(t[2]) + Cardinality(t[3]) <= MaxFiles}}

NamesIn(d, folder) == {p[Len(p)] : p \in {q \in Children(d, folder) : IsFile(d, q)}}

NoCall == [op |-> "none", args |-> <<>>, faults |-> {}, before |-> <<>>, ret |-> RanOff]

\* No request is being served step by step.
NoneInFlight == <<>>

Init ==
    /\ disk \in InitialTrees
    /\ phase = "down"
    /\ last = NoCall
    /\ hist = <<>>
    /\ inflight = NoneInFlight

-----------------------------------------------------------------------------
(* The calls. *)

CallRecord(op, args, faults, out) ==
    [op |-> op, args |-> args, faults |-> faults, before |-> disk, ret |-> out.ret]

Call(op, args, faults, out) ==
    /\ last = NoCall
    /\ disk' = out.disk
    /\ last' = CallRecord(op, args, faults, out)
    /\ inflight' = inflight

\* A failed delete leaves a second copy of the file behind.
Room(faults) == "rm" \in faults => Cardinality(FilePaths(disk)) < MaxFiles

\* startBackend, for the one namespace of the model; the process may be started again.
StartBackend ==
    \E faults \in {{}, {"mkdir"}} :
        LET out == loadDirectoryPaths(disk, invoiceFolderPath, directoriesFolderPath, faults)
        IN  /\ Call("loadDirectoryPaths", <<>>, faults, out)
            /\ phase' = IF out.ret.val.valid THEN "listening" ELSE "down"
            /\ hist' = hist

SortFile ==
    /\ phase = "listening"
    /\ \E invoiceName \in NamesIn(disk, invoiceFolderPath) \cup {NameA},
          directoryName \in {CategoryAc, CategoryCc},
          faults \in {{}, {"mkdir"}, {"copyFile"}, {"rm"}} :
        LET queries == [directoryFolderPath |-> <<LetterA, directoryName>>,
                        directoryName |-> directoryName,
                        invoiceName |-> invoiceName,
                        year |-> Year24]
        IN  /\ Room(faults)
            /\ Call("sortFile", queries, faults, sortFile(disk, queries, faults))
            /\ UNCHANGED <<phase, hist>>

CreateNewFolder ==
    /\ phase = "listening"
    /\ \E directoryFolderName \in {CategoryAc, CategoryBb}, faults \in {{}, {"mkdir"}} :
        LET requestQueryParameters ==
                [directoryFolderName |-> directoryFolderName, letterFolder |-> LetterA]
        IN  /\ Call("createNewFolder", requestQueryParameters, faults,
                    createNewFolder(disk, requestQueryParameters, faults))
            /\ UNCHANGED <<phase, hist>>

\* Undo records a caller may hold for transfers into, and folders under, A.
TransferRecords(d) ==
    UNION {{[oldInvoiceName |-> o, newInvoiceName |-> n, directoryFolderPath |-> CategoryPath,
             directoryName |-> CategoryAc, year |-> Year24] : o \in {NameA, n}} :
               n \in NamesIn(d, YearFolder) \cup {NameA}}

\* A directoryName that reaches below the category folder: "Ac/24".
CategoryAcYear24 == CategoryAc \o <<"/">> \o Year24

FolderRecords ==
    {[directoryName |-> c, letterFolder |-> LetterA] :
        c \in {CategoryAc, CategoryBb, <<>>, CategoryAcYear24}}

UndoRequests(d) ==
    {[action |-> "File Transfer", actionId |-> "id", undoInfo |-> [parses |-> TRUE, obj |-> r]] :
        r \in TransferRecords(d)}
    \cup
    {[action |-> "Folder Creation", actionId |-> "id", undoInfo |-> [parses |-> TRUE, obj |-> r]] :
        r \in FolderRecords}
    \cup
    {[action |-> "File Transfer", actionId |-> "id",
      undoInfo |-> [parses |-> TRUE, obj |-> [directoryName |-> CategoryBb, letterFolder |-> LetterA]]],
     [action |-> "Undo Action", actionId |-> "id",
      undoInfo |-> [parses |-> TRUE, obj |-> [directoryName |-> CategoryBb, letterFolder |-> LetterA]]],
     [action |-> "File Transfer", actionId |-> "id",
      undoInfo |-> [parses |-> FALSE, obj |-> [directoryName |-> CategoryBb, letterFolder |-> LetterA]]]}

UndoPreviousAction ==
    /\ phase = "listening"
    /\ \E requestQueryParameters \in UndoRequests(disk),
          faults \in {{}, {"copyFile"}, {"rm"}, {"rmdir"}} :
        /\ Room(faults)
        /\ requestQueryParameters.action = "Folder Creation" => faults \subseteq {"rmdir"}
        /\ requestQueryParameters.action # "Folder Creation" => "rmdir" \notin faults
        /\ Call("undoPreviousAction", requestQueryParameters, faults,
                undoPreviousAction(disk, requestQueryParameters, faults))
        /\ UNCHANGED <<phase, hist>>

\* The route handler sends the response; the next request is then served.
Respond ==
    /\ last # NoCall
    /\ last' = NoCall
    /\ UNCHANGED <<disk, phase, hist, inflight>>

Next == StartBackend \/ SortFile \/ CreateNewFolder \/ UndoPreviousAction \/ Respond

Spec == Init /\ [][Next]_vars

-----------------------------------------------------------------------------
(* The Collision Resolver on its own: one name is resolved in one folder,    *)
(* again and again, a file being created under each name it returns.         *)

NameT == <<"a", ".", "t", "x", "t">>
NameR == <<"r">>
NameBlank2 == <<" ", "(", "2", ")", ".", "p", "d", "f">>
NameN99 == <<"n", "(", "9", ")", "(", "9", ")">>

AskedNames == {NameA, NameA2, NameT, NameN9, NameR, NameN99}

FolderNames == {NameA, NameA2, NameA3, NameT, NameN9, NameN10, NameR, NameBlank2, NameN99}

ResolverTrees ==
    {WithFiles(Put(BaseTree({}), YearFolder, Dir), YearFolder, {<<n, "y">> : n \in names}) :
        names \in {S \in SUBSET FolderNames : Cardinality(S) <= MaxFiles}}

InitResolver ==
    /\ disk \in ResolverTrees
    /\ phase = "resolver"
    /\ last = NoCall
    /\ hist = <<>>
    /\ inflight = NoneInFlight

Resolve ==
    /\ phase = "resolver"
    /\ \E invoiceName \in AskedNames :
        /\ hist # <<>> => invoiceName = hist[1].asked
        /\ Call("_checkInvoiceFileName",
                [folderPath |-> YearFolder, invoiceName |-> invoiceName], {},
                Out(disk, Returned(_checkInvoiceFileName(disk, YearFolder, invoiceName))))
        /\ UNCHANGED <<phase, hist>>

\* The caller writes a file under the name the resolver returned.
Materialize ==
    /\ last.op = "_checkInvoiceFileName"
    /\ Len(hist) < MaxResolves
    /\ disk' = Put(disk, Norm(last.ret.val[1]), "new")
    /\ hist' = Append(hist, [asked |-> last.args.invoiceName,
                             got |-> last.ret.val[2],
                             folder |-> NamesIn(disk, last.args.folderPath)])
    /\ last' = NoCall
    /\ phase' = phase
    /\ inflight' = inflight

NextResolver == Resolve \/ Materialize \/ Respond

SpecResolver == InitResolver /\ [][NextResolver]_vars

-----------------------------------------------------------------------------
(* The Move Engine on its own: a move, then moves back and forth between     *)
(* the same two paths.                                                       *)

MovePaths ==
    {Join(invoiceFolderPath, <<NameA>>), Join(invoiceFolderPath, <<NameA2>>),
     Join(YearFolder, <<NameA>>), Join(YearFolder, <<NameA2>>),
     Join(Join(directoriesFolderPath, <<LetterA, CategoryBb>>), <<NameA>>),
     invoiceFolderPath}

MoveFaults == {{}, {"copyFile"}, {"rm"}}

InitMove ==
    /\ disk \in InitialTrees
    /\ phase = "move"
    /\ last = NoCall
    /\ hist = <<>>
    /\ inflight = NoneInFlight

Move(sourcePath, destinationPath, faults) ==
    LET out == _moveFile(disk, sourcePath, destinationPath, faults)
        args == [sourcePath |-> sourcePath, destinationPath |-> destinationPath]
    IN  /\ Len(hist) < MaxMoves
        /\ Call("_moveFile", args, faults, [disk |-> out.disk, ret |-> Returned(out.ret)])
        /\ hist' = Append(hist, [args |-> args, faults |-> faults, before |-> disk,
                                 after |-> out.disk, ret |-> out.ret])
        /\ phase' = phase

MoveFile ==
    /\ phase = "move"
    /\ hist = <<>>
    /\ \E sourcePath \in MovePaths, destinationPath \in MovePaths, faults \in MoveFaults :
        Move(sourcePath, destinationPath, faults)

\* _moveFile(b, a) after _moveFile(a, b).
MoveBack ==
    /\ phase = "move"
    /\ hist # <<>>
    /\ \E faults \in MoveFaults :
        Move(hist[Len(hist)].args.destinationPath, hist[Len(hist)].args.sourcePath, faults)

NextMove == MoveFile \/ MoveBack \/ Respond

SpecMove == InitMove /\ [][NextMove]_vars

-----------------------------------------------------------------------------
(* A sort and the undo of it: the caller hands the undo record of the sort   *)
(* back as it received it, nothing else touching the tree in between.        *)

SortUndoInboxes ==
    {S \in SUBSET {<<NameA, "x">>, <<NameA2, "w">>, <<NameR, "v">>, <<NameN9, "u">>} : S # {}}

\* The year folder at the start: absent ({}), or holding these files.
SortUndoArchives ==
    SUBSET {<<NameA, "y">>, <<NameA2, "z">>, <<NameBlank2, "y">>, <<NameN9, "z">>}

SortUndoTrees ==
    {WithFiles(IF yearFolderThere THEN Put(WithFiles(BaseTree({}), invoiceFolderPath, inbox),
                                           YearFolder, Dir)
               ELSE WithFiles(BaseTree({}), invoiceFolderPath, inbox),
               YearFolder, archive) :
        <<inbox, archive, yearFolderThere>> \in
            {t \in SortUndoInboxes \X SortUndoArchives \X BOOLEAN :
                 /\ Cardinality(t[1]) + Cardinality(t[2]) <= MaxFiles
                 /\ t[2] # {} => t[3]}}

InitSortUndo ==
    /\ disk \in SortUndoTrees
    /\ phase = "sortUndo"
    /\ last = NoCall
    /\ hist = <<>>
    /\ inflight = NoneInFlight

\* sortFile; the caller keeps the response.
SortHeld ==
    /\ phase = "sortUndo"
    /\ hist = <<>>
    /\ \E invoiceName \in NamesIn(disk, invoiceFolderPath),
          faults \in {{}, {"mkdir"}, {"copyFile"}} :
        LET queries == [directoryFolderPath |-> CategoryPath,
                        directoryName |-> CategoryAc,
                        invoiceName |-> invoiceName,
                        year |-> Year24]
            out == sortFile(disk, queries, faults)
        IN  /\ Call("sortFile", queries, faults, out)
            /\ hist' = Append(hist, [args |-> queries, faults |-> faults, before |-> disk,
                                     after |-> out.disk, ret |-> out.ret])
            /\ phase' = phase

\* The response of a sort that succeeded, as the /sort-file route sends it.
HeldUndoRequest(sorted) ==
    [action |-> "File Transfer", actionId |-> "id",
     undoInfo |-> [parses |-> TRUE, obj |-> sorted.ret.val[3]]]

\* undoPreviousAction with the record the sort returned, once or again.
UndoHeld ==
    /\ phase = "sortUndo"
    /\ Len(hist) \in 1..MaxUndos
    /\ hist[1].ret.kind = "return"
    /\ hist[1].ret.val[1]
    /\ \E faults \in {{}, {"copyFile"}, {"rm"}} :
        LET requestQueryParameters == HeldUndoRequest(hist[1])
            out == undoPreviousAction(disk, requestQueryParameters, faults)
        IN  /\ Call("undoPreviousAction", requestQueryParameters, faults, out)
            /\ hist' = Append(hist, [args |-> requestQueryParameters, faults |-> faults,
                                     before |-> disk, after |-> out.disk, ret |-> out.ret])
            /\ phase' = phase

NextSortUndo == SortHeld \/ UndoHeld \/ Respond

SpecSortUndo == InitSortUndo /\ [][NextSortUndo]_vars

-----------------------------------------------------------------------------
(* Fetching the next invoice.  fs.readdir lists the entries of the inbox in  *)
(* an order the operating system chooses.                                    *)

FolderS == <<"s">>
FolderT == <<"t">>

\* What the inbox may hold: regular files and folders.
InboxEntries ==
    {<<NameA, "x">>, <<NameA2, "w">>, <<NameR, "v">>, <<FolderS, Dir>>, <<FolderT, Dir>>}

InboxTrees ==
    {WithFiles(BaseTree({}), invoiceFolderPath, entries) :
        entries \in {S \in SUBSET InboxEntries : Cardinality(S) <= MaxInbox}}

\* The listings fs.readdir may return for `path`.
fsReaddir(d, path) ==
    LET names == {p[Len(p)] : p \in Children(d, Norm(path))}
    IN  {listing \in [1..Cardinality(names) -> names] :
             \A i, j \in 1..Cardinality(names) : listing[i] = listing[j] => i = j}

InitInbox ==
    /\ disk \in InboxTrees
    /\ phase = "inbox"
    /\ last = NoCall
    /\ hist = <<>>
    /\ inflight = NoneInFlight

GetInvoice ==
    /\ phase = "inbox"
    /\ \E invoiceFolder \in fsReaddir(disk, invoiceFolderPath) :
        Call("getInvoice", [invoiceFolder |-> invoiceFolder], {}, getInvoice(disk, invoiceFolder))
    /\ UNCHANGED <<phase, hist>>

NextInbox == GetInvoice \/ Respond

SpecInbox == InitInbox /\ [][NextInbox]_vars

-----------------------------------------------------------------------------
(* Requests served at the same time.  The handlers are async functions on    *)
(* one thread: a request runs until it awaits a filesystem primitive, and    *)
(* the primitives of the requests in flight complete in any order.  A step   *)
(* is one primitive together with the code that runs on its result, up to    *)
(* the next primitive.                                                       *)

Callers == {"first", "second"}

\* The frame of a call: the method, its arguments, the primitive it awaits
\* (pc) and its local variables.  `contended` is history: at the moment this
\* call wrote to its target, another call had found the same target free and
\* had not written yet.
Idle ==
    [op |-> "idle", pc |-> "idle", args |-> <<>>, source |-> <<>>, folder |-> <<>>,
     name |-> <<>>, target |-> <<>>, contended |-> FALSE, ret |-> RanOff]

Running(f) == f.pc \notin {"idle", "done"}

At(f, pc) == [f EXCEPT !.pc = pc]
Done(f, ret) == [f EXCEPT !.pc = "done", !.ret = ret]
Stepped(d, f) == [disk |-> d, frame |-> f]

\* sortFile up to its first await.
BeginSortFile(queries) ==
    [Idle EXCEPT !.op = "sortFile", !.args = queries, !.pc = "validateCategory",
                 !.source = Join(invoiceFolderPath, <<queries.invoiceName>>),
                 !.folder = Join(Join(directoriesFolderPath, queries.directoryFolderPath),
                                 <<queries.year>>),
                 !.name = queries.invoiceName]

\* createNewFolder up to its first await.
BeginCreateNewFolder(requestQueryParameters) ==
    [Idle EXCEPT !.op = "createNewFolder", !.args = requestQueryParameters, !.pc = "createCheck",
                 !.target = Join(Join(directoriesFolderPath,
                                      <<requestQueryParameters.letterFolder>>),
                                 <<requestQueryParameters.directoryFolderName>>)]

\* undoPreviousAction up to its first await; it may return or throw before.
BeginUndoPreviousAction(requestQueryParameters) ==
    LET called == [Idle EXCEPT !.op = "undoPreviousAction", !.args = requestQueryParameters]
        undoInfoObj == requestQueryParameters.undoInfo.obj
    IN  IF ~requestQueryParameters.undoInfo.parses THEN Done(called, Threw)
        ELSE IF requestQueryParameters.action = "Folder Creation"
        THEN [called EXCEPT !.pc = "undoCheck", !.target = DirectoryToBeRemoved(undoInfoObj)]
        ELSE IF requestQueryParameters.action = "File Transfer"
        THEN [called EXCEPT !.pc = "resolve",
                            !.source = InvoiceToBeRemoved(undoInfoObj),
                            !.folder = invoiceFolderPath,
                            !.name = InvoiceFileName(undoInfoObj)]
        ELSE Done(called, Returned(<<TRUE, Nothing, requestQueryParameters.actionId>>))

\* _validatePaths in sortFile: one fs.access for each of the two paths.
StepValidatePaths(d, f) ==
    IF f.pc = "validateCategory"
    THEN IF _checkPath(d, Join(directoriesFolderPath, f.args.directoryFolderPath))
         THEN Stepped(d, At(f, "validateInvoice"))
         ELSE Stepped(d, Done(f, Returned(TransferFailed(f.args, Nothing))))
    ELSE IF _checkPath(d, f.source)
         THEN Stepped(d, At(f, "yearCheck"))
         ELSE Stepped(d, Done(f, Returned(TransferFailed(f.args, Nothing))))

\* _checkForYearFolder: fs.access, then fs.mkdir if the folder is missing.
StepYearFolder(d, f) ==
    IF f.pc = "yearCheck"
    THEN Stepped(d, At(f, IF _checkPath(d, f.folder) THEN "resolve" ELSE "yearMkdir"))
    ELSE LET made == fsMkdir(d, f.folder, {})
         IN  IF made.ok THEN Stepped(made.disk, At(f, "resolve"))
             ELSE Stepped(d, Done(f, Returned(TransferFailed(f.args, Nothing))))

\* _checkInvoiceFileName: one fs.access; a taken name is rewritten and checked
\* by the next step.
StepResolve(d, f) ==
    IF _checkPath(d, Join(f.folder, <<f.name>>))
    THEN Stepped(d, [f EXCEPT !.name = NextCopyName(f.name)])
    ELSE Stepped(d, [f EXCEPT !.target = Join(f.folder, <<f.name>>), !.pc = "moveSource"])

\* What the caller of _moveFile returns on the result `moved`.
MoveReturn(f, moved) ==
    IF f.op = "sortFile" THEN SortAfterMove(f.args, f.name, moved)
    ELSE UndoAfterMove(f.args, f.name, moved)

\* _moveFile: two fs.access, fs.copyFile, fs.rm.
StepMove(d, f) ==
    IF f.pc = "moveSource"
    THEN IF _checkPath(d, f.source) THEN Stepped(d, At(f, "moveDestination"))
         ELSE Stepped(d, Done(f, MoveReturn(f, <<FALSE, Msg1("SourcePathInvalid")>>)))
    ELSE IF f.pc = "moveDestination"
    THEN IF ~_checkPath(d, f.target) THEN Stepped(d, At(f, "moveCopy"))
         ELSE Stepped(d, Done(f, MoveReturn(f, <<FALSE, Msg1("DestinationPathAlreadyInUse")>>)))
    ELSE IF f.pc = "moveCopy"
    THEN LET copied == fsCopyFile(d, f.source, f.target, {})
         IN  IF copied.ok THEN Stepped(copied.disk, At(f, "moveRemove"))
             ELSE Stepped(d, Done(f, MoveReturn(f, <<FALSE, copied.err.message>>)))
    ELSE LET removed == fsRm(d, f.source, {})
         IN  IF removed.ok THEN Stepped(removed.disk, Done(f, MoveReturn(f, <<TRUE, Nothing>>)))
             ELSE Stepped(d, Done(f, MoveReturn(f, <<FALSE, removed.err.message>>)))

\* createNewFolder: fs.access, then fs.mkdir.
StepCreateNewFolder(d, f) ==
    IF f.pc = "createCheck"
    THEN IF _checkPath(d, f.target) THEN Stepped(d, Done(f, CreateFolderReturn(f.args, "conflict")))
         ELSE Stepped(d, At(f, "createMkdir"))
    ELSE LET made == fsMkdir(d, f.target, {})
         IN  IF made.ok THEN Stepped(made.disk, Done(f, CreateFolderReturn(f.args, "created")))
             ELSE Stepped(d, Done(f, CreateFolderReturn(f.args, "failed")))

\* The 'Folder Creation' branch of undoPreviousAction: fs.access, then fs.rmdir.
StepUndoFolder(d, f) ==
    IF f.pc = "undoCheck"
    THEN IF _checkPath(d, f.target) THEN Stepped(d, At(f, "undoRmdir"))
         ELSE Stepped(d, Done(f, UndoFolderReturn(f.args, "missing", Nothing)))
    ELSE LET removed == fsRmdir(d, f.target, {})
         IN  IF removed.ok THEN Stepped(removed.disk, Done(f, UndoFolderReturn(f.args, "removed", Nothing)))
             ELSE Stepped(d, Done(f, UndoFolderReturn(f.args, "refused", removed.err)))

\* The primitive the frame awaits completes.
Step(d, f) ==
    IF f.pc \in {"validateCategory", "validateInvoice"} THEN StepValidatePaths(d, f)
    ELSE IF f.pc \in {"yearCheck", "yearMkdir"} THEN StepYearFolder(d, f)
    ELSE IF f.pc = "resolve" THEN StepResolve(d, f)
    ELSE IF f.pc \in {"moveSource", "moveDestination", "moveCopy", "moveRemove"} THEN StepMove(d, f)
    ELSE IF f.pc \in {"createCheck", "createMkdir"} THEN StepCreateNewFolder(d, f)
    ELSE StepUndoFolder(d, f)

\* The year folder at the start: absent, or holding some of these files.
ConcurrentTrees ==
    {WithFiles(IF yearFolderThere THEN Put(WithFiles(BaseTree({}), invoiceFolderPath, inbox),
                                           YearFolder, Dir)
               ELSE WithFiles(BaseTree({}), invoiceFolderPath, inbox),
               YearFolder, archive) :
        <<inbox, archive, yearFolderThere>> \in
            {t \in (SUBSET {<<NameA, "x">>, <<NameA2, "w">>})
                       \X (SUBSET {<<NameA, "y">>, <<NameA2, "z">>}) \X BOOLEAN :
                 /\ Cardinality(t[1]) + Cardinality(t[2]) <= MaxFiles
                 /\ t[2] # {} => t[3]}}

\* The calls a client may make on tree d.
ConcurrentCalls(d) ==
    {BeginSortFile([directoryFolderPath |-> CategoryPath, directoryName |-> CategoryAc,
                    invoiceName |-> invoiceName, year |-> Year24]) :
        invoiceName \in NamesIn(d, invoiceFolderPath)}
    \cup
    {BeginUndoPreviousAction(
         [action |-> "File Transfer", actionId |-> "id",
          undoInfo |-> [parses |-> TRUE,
                        obj |-> [oldInvoiceName |-> NameA, newInvoiceName |-> n,
                                 directoryFolderPath |-> CategoryPath,
                                 directoryName |-> CategoryAc, year |-> Year24]]]) :
        n \in NamesIn(d, YearFolder)}
    \cup
    {BeginCreateNewFolder([directoryFolderName |-> CategoryBb, letterFolder |-> LetterA]),
     BeginUndoPreviousAction(
         [action |-> "Folder Creation", actionId |-> "id",
          undoInfo |-> [parses |-> TRUE,
                        obj |-> [directoryName |-> CategoryBb, letterFolder |-> LetterA]]])}

InitConcurrent ==
    /\ disk \in ConcurrentTrees
    /\ phase = "concurrent"
    /\ last = NoCall
    /\ hist = <<>>
    /\ inflight = [c \in Callers |-> Idle]

\* A request arrives and runs up to its first await.  The callers are alike:
\* the second one's request is taken to arrive after the first one's.
Begin(c) ==
    /\ phase = "concurrent"
    /\ inflight[c].op = "idle"
    /\ c = "second" => inflight["first"].op # "idle"
    /\ \E f \in ConcurrentCalls(disk) : inflight' = [inflight EXCEPT ![c] = f]
    /\ UNCHANGED <<disk, phase, last, hist>>

\* Frame g has found `target` free and has not written to it yet.
AboutToWrite(g, target) ==
    /\ g.target = target
    /\ g.pc \in {"moveSource", "moveDestination", "moveCopy", "createMkdir"}

\* The primitive caller c awaits completes and c runs on to its next await.
Advance(c) ==
    /\ phase = "concurrent"
    /\ Running(inflight[c])
    /\ LET f == inflight[c]
           stepped == Step(disk, f)
           writes == f.pc \in {"moveCopy", "createMkdir"}
           contended == \E o \in Callers \ {c} : AboutToWrite(inflight[o], f.target)
       IN  /\ disk' = stepped.disk
           /\ inflight' = [inflight EXCEPT
                             ![c] = [stepped.frame EXCEPT
                                       !.contended = f.contended \/ (writes /\ contended)]]
    /\ UNCHANGED <<phase, last, hist>>

NextConcurrent == \E c \in Callers : Begin(c) \/ Advance(c)

SpecConcurrent == InitConcurrent /\ [][NextConcurrent]_vars

-----------------------------------------------------------------------------
(* Claims about the Collision Resolver, checked under SpecResolver. *)

ResolverCalled == last.op = "_checkInvoiceFileName"

\* Whether an entry named `name` exists in `folder` of tree d.
Exists(d, folder, name) == Join(folder, <<name>>) \in DOMAIN d

\* C1: when no entry named n exists in folder F at the time of the check, the
\* resolver returns n unchanged together with the path F/n, and the tree is
\* as it was before the call.
C1_FreeNameReturnedUnchanged ==
    (ResolverCalled /\ ~Exists(last.before, last.args.folderPath, last.args.invoiceName))
        => /\ last.ret = Returned(<<Join(last.args.folderPath, <<last.args.invoiceName>>),
                                    last.args.invoiceName>>)
           /\ disk = last.before

C1_Witness ==
    /\ ResolverCalled
    /\ ~Exists(last.before, last.args.folderPath, last.args.invoiceName)
    /\ NamesIn(last.before, last.args.folderPath) # {}

\* C2: when an entry named n exists in folder F, the resolver returns a name
\* that differs from n and does not exist in F, with the path of that name in F.
C2_TakenNameRenamedToFreeName ==
    (ResolverCalled /\ Exists(last.before, last.args.folderPath, last.args.invoiceName))
        => /\ last.ret.kind = "return"
           /\ last.ret.val[2] # last.args.invoiceName
           /\ ~Exists(disk, last.args.folderPath, last.ret.val[2])
           /\ last.ret.val[1] = Join(last.args.folderPath, <<last.ret.val[2]>>)

\* A resolution that had to pass over a second taken name.
C2_Witness ==
    /\ ResolverCalled
    /\ Exists(last.before, last.args.folderPath, last.args.invoiceName)
    /\ Exists(last.before, last.args.folderPath, NextCopyName(last.args.invoiceName))
    /\ last.ret.val[2] # last.args.invoiceName

\* `name` ends in " (k).pdf".
NumberedCopy(name, k) ==
    LET suffix == <<" ", "(">> \o NumberToString(k) \o <<")", ".", "p", "d", "f">>
    IN  /\ Len(name) >= Len(suffix)
        /\ SubSeq(name, Len(name) - Len(suffix) + 1, Len(name)) = suffix

\* The k-th copy of `base` by the naming scheme: the text before the last dot
\* of `base`, then " (k).pdf".
CopyNameOf(base, k) ==
    Substring0(base, LastIndexOfDot(base))
        \o <<" ", "(">> \o NumberToString(k) \o <<")", ".", "p", "d", "f">>

\* hist[i..j] resolves one base name, which holds no parenthesized number and
\* is in the folder when the run starts.
RepeatedRun(i, j) ==
    /\ i <= j
    /\ ~CopyPatternTest(hist[i].asked)
    /\ hist[i].asked \in hist[i].folder
    /\ \A m \in i..j : hist[m].asked = hist[i].asked

\* C3 as stated: every such run returns the names numbered (2), (3), (4), ...
C3_Original ==
    \A i \in 1..Len(hist), j \in 1..Len(hist) :
        RepeatedRun(i, j) => \A m \in i..j : NumberedCopy(hist[m].got, m - i + 2)

\* C3, amended: a run of k resolutions that starts in a folder holding none of
\* the copies (2) .. (k+1) of the base name returns the names numbered (2), (3),
\* (4), ... (k+1) in that order.
C3_NumberingFromCleanFolder ==
    \A i \in 1..Len(hist), j \in 1..Len(hist) :
        (/\ RepeatedRun(i, j)
         /\ \A k \in 2..(j - i + 2) : CopyNameOf(hist[i].asked, k) \notin hist[i].folder)
            => \A m \in i..j : NumberedCopy(hist[m].got, m - i + 2)

C3_Witness ==
    /\ Len(hist) >= 3
    /\ RepeatedRun(1, 3)
    /\ \A k \in 2..4 : CopyNameOf(hist[1].asked, k) \notin hist[1].folder
    /\ Cardinality(hist[1].folder) >= 2
    /\ NumberedCopy(hist[3].got, 4)

-----------------------------------------------------------------------------
(* The Move Engine, checked under SpecMove. *)

\* hist[i] moves a file from a to a free path b in an existing folder and
\* hist[i + 1] moves it back, no primitive being refused in either call.
RoundTrip(i) ==
    LET there == hist[i]
        back == hist[i + 1]
        a == there.args.sourcePath
        b == there.args.destinationPath
    IN  /\ a # b
        /\ IsFile(there.before, a)
        /\ b \notin DOMAIN there.before
        /\ IsDir(there.before, Parent(b))
        /\ there.faults = {} /\ back.faults = {}
        /\ back.args = [sourcePath |-> b, destinationPath |-> a]
        /\ back.before = there.after

\* C4: _moveFile(a, b) followed by _moveFile(b, a) both succeed and leave the
\* file at a with its original content and nothing at b; the tree is restored.
C4_MoveRoundTrip ==
    \A i \in 1..(Len(hist) - 1) :
        RoundTrip(i) =>
            LET there == hist[i]
                back == hist[i + 1]
                a == there.args.sourcePath
                b == there.args.destinationPath
            IN  /\ there.ret[1] /\ back.ret[1]
                /\ IsFile(back.after, a)
                /\ back.after[a] = there.before[a]
                /\ b \notin DOMAIN back.after
                /\ back.after = there.before

C4_Witness ==
    /\ Len(hist) >= 2
    /\ RoundTrip(1)
    /\ hist[1].ret[1]
    /\ IsFile(hist[1].after, hist[1].args.destinationPath)
    /\ disk = hist[2].after

-----------------------------------------------------------------------------
(* Startup and the requests, checked under Spec. *)

AllLetterFolders(d) ==
    \A i \in 1..Len(alphabetArray) : IsDir(d, letterFoldersPathArray(directoriesFolderPath)[i])

\* A part of message `m` made from template `t`.
HasPart(m, t) == \E k \in 1..Len(m) : m[k][1] = t

\* C5: with all 26 letter folders present, initialization creates nothing,
\* leaves the tree as it is and reports ready, however often it is run.
C5_InitializerIdempotent ==
    (last.op = "loadDirectoryPaths" /\ AllLetterFolders(last.before))
        => /\ disk = last.before
           /\ last.ret.val.valid
           /\ HasPart(last.ret.val.message,
                      "All Letter Folders are initialized for ${this._fileSystemName}.")

\* A second start: category Bb was created while the service was listening.
C5_Witness ==
    /\ last.op = "loadDirectoryPaths"
    /\ AllLetterFolders(last.before)
    /\ Join(directoriesFolderPath, <<LetterA, CategoryBb>>) \in DOMAIN last.before
    /\ phase = "listening"

\* The paths a sortFile call works on.
SortSource(queries) == Join(invoiceFolderPath, <<queries.invoiceName>>)
SortCategory(queries) == Join(directoriesFolderPath, queries.directoryFolderPath)
SortYear(queries) == Join(SortCategory(queries), <<queries.year>>)
SortTarget(queries) == Join(SortYear(queries), <<queries.invoiceName>>)

\* A sortFile call in which no primitive is refused and the inbox file exists.
SortCalled ==
    /\ last.op = "sortFile"
    /\ last.faults = {}
    /\ IsFile(last.before, SortSource(last.args))

\* C6: when the category folder and the inbox file exist and the year folder
\* holds no entry of that name, sortFile succeeds, the file leaves the inbox and
\* is in <category>/<year>/ under its own name with its content, and the undo
\* record carries that name twice with the caller's category path, category
\* name and year.
C6_SortWithoutCollision ==
    (/\ SortCalled
     /\ IsDir(last.before, SortCategory(last.args))
     /\ SortTarget(last.args) \notin DOMAIN last.before)
        => /\ last.ret.kind = "return"
           /\ last.ret.val[1] = TRUE
           /\ last.ret.val[3] = [oldInvoiceName |-> last.args.invoiceName,
                                 newInvoiceName |-> last.args.invoiceName,
                                 directoryFolderPath |-> last.args.directoryFolderPath,
                                 directoryName |-> last.args.directoryName,
                                 year |-> last.args.year]
           /\ SortSource(last.args) \notin DOMAIN disk
           /\ IsFile(disk, SortTarget(last.args))
           /\ disk[SortTarget(last.args)] = last.before[SortSource(last.args)]

\* A sort into a year folder that holds other files already.
C6_Witness ==
    /\ SortCalled
    /\ SortTarget(last.args) \notin DOMAIN last.before
    /\ NamesIn(last.before, SortYear(last.args)) # {}
    /\ last.ret.val[1] = TRUE

\* C7: when <category>/<year>/<name> exists already, sortFile succeeds and files
\* the invoice under a new name that was free ("<stem> (2).pdf" for a name
\* without copy number when that is free); the file that was there keeps its
\* place and content; the undo record holds the original and the written name.
C7_SortWithCollision ==
    (SortCalled /\ SortTarget(last.args) \in DOMAIN last.before)
        => /\ last.ret.kind = "return"
           /\ last.ret.val[1] = TRUE
           /\ LET written == last.ret.val[3].newInvoiceName
                  target == Join(SortYear(last.args), <<written>>)
                  second == CopyNameOf(last.args.invoiceName, 2)
              IN  /\ written # last.args.invoiceName
                  /\ target \notin DOMAIN last.before
                  /\ IsFile(disk, target)
                  /\ disk[target] = last.before[SortSource(last.args)]
                  /\ (/\ ~CopyPatternTest(last.args.invoiceName)
                      /\ Join(SortYear(last.args), <<second>>) \notin DOMAIN last.before)
                        => written = second
                  /\ (/\ last.args.invoiceName = NameA
                      /\ Join(SortYear(last.args), <<NameA2>>) \notin DOMAIN last.before)
                        => written = NameA2
           /\ last.ret.val[3].oldInvoiceName = last.args.invoiceName
           /\ SortSource(last.args) \notin DOMAIN disk
           /\ SortTarget(last.args) \in DOMAIN disk
           /\ disk[SortTarget(last.args)] = last.before[SortTarget(last.args)]

C7_Witness ==
    /\ SortCalled
    /\ last.args.invoiceName = NameA
    /\ IsFile(last.before, SortTarget(last.args))
    /\ last.ret.val[1] = TRUE
    /\ last.ret.val[3].newInvoiceName = NameA2
    /\ disk[SortTarget(last.args)] # disk[Join(SortYear(last.args), <<NameA2>>)]

ConflictMessage(directoryFolderName) ==
    Msg2("Initialization Failed - Directory ${directoryFolderName} Already Exists!",
         directoryFolderName)

NewFolderPath(requestQueryParameters) ==
    Join(Join(directoriesFolderPath, <<requestQueryParameters.letterFolder>>),
         <<requestQueryParameters.directoryFolderName>>)

\* C8: when directoriesRoot/<letter>/<categoryName> exists, createNewFolder
\* returns failure with the "Already Exists" message and no undo record and
\* changes nothing; a creation that fails otherwise does not get that message.
C8_CreateFolderConflict ==
    last.op = "createNewFolder" =>
        /\ NewFolderPath(last.args) \in DOMAIN last.before
             => /\ last.ret = Returned(<<FALSE, ConflictMessage(last.args.directoryFolderName)>>)
                /\ disk = last.before
        /\ NewFolderPath(last.args) \notin DOMAIN last.before
             => /\ last.ret.kind = "return"
                /\ last.ret.val[2] # ConflictMessage(last.args.directoryFolderName)

C8_Witness ==
    /\ last.op = "createNewFolder"
    /\ last.args.directoryFolderName = CategoryBb
    /\ NewFolderPath(last.args) \in DOMAIN last.before
    /\ last.ret.val[1] = FALSE

\* An undoPreviousAction call whose undo record parses.
UndoCalled(action) ==
    /\ last.op = "undoPreviousAction"
    /\ last.args.action = action
    /\ last.args.undoInfo.parses

\* The filed invoice an undo record of a transfer points at.
FiledPath(obj) ==
    Join(Join(Join(directoriesFolderPath, obj.directoryFolderPath), <<obj.year>>),
         <<obj.newInvoiceName>>)

\* An undo of a transfer, no primitive refused, whose filed file exists while
\* the inbox holds an entry under the name to restore.
UndoIntoTakenSlot ==
    /\ UndoCalled("File Transfer")
    /\ last.faults = {}
    /\ "newInvoiceName" \in DOMAIN last.args.undoInfo.obj
    /\ IsFile(last.before, FiledPath(last.args.undoInfo.obj))
    /\ Join(invoiceFolderPath, <<last.args.undoInfo.obj.oldInvoiceName>>) \in DOMAIN last.before

\* C9: such an undo succeeds; the filed file is moved into the inbox under a
\* name that was free, the inbox entry under the original name is untouched,
\* and the message states the rename from the original name to the new one.
C9_UndoTransferIntoTakenSlot ==
    UndoIntoTakenSlot =>
        LET obj == last.args.undoInfo.obj
            original == Join(invoiceFolderPath, <<obj.oldInvoiceName>>)
        IN  /\ last.ret.kind = "return"
            /\ last.ret.val[1] = TRUE
            /\ FiledPath(obj) \notin DOMAIN disk
            /\ original \in DOMAIN disk
            /\ disk[original] = last.before[original]
            /\ \E unique \in NamesIn(disk, invoiceFolderPath) :
                  /\ unique # obj.oldInvoiceName
                  /\ Join(invoiceFolderPath, <<unique>>) \notin DOMAIN last.before
                  /\ disk[Join(invoiceFolderPath, <<unique>>)] = last.before[FiledPath(obj)]
                  /\ \E k \in 1..Len(last.ret.val[2]) :
                        last.ret.val[2][k] =
                            <<"\nReturned invoice has been renamed from ${invoiceFileName} to ${uniqueInvoiceName}.",
                              obj.oldInvoiceName, unique>>

\* The filed file had been renamed by its sort and is renamed again on return.
C9_Witness ==
    /\ UndoIntoTakenSlot
    /\ last.args.undoInfo.obj.oldInvoiceName # last.args.undoInfo.obj.newInvoiceName
    /\ last.ret.val[1] = TRUE
    /\ Cardinality(NamesIn(disk, invoiceFolderPath)) >= 2

\* The folder an undo record of a folder creation points at.
FolderToBeRemoved(obj) ==
    Norm(Join(Join(directoriesFolderPath, <<NameField(obj, "letterFolder")>>),
              <<NameField(obj, "directoryName")>>))

NotEmptyTemplate == "\nFolder ${undoInfoObj.directoryFolderPath} is not empty."

\* C10: the undo of a folder creation whose folder is not empty returns failure
\* with the "is not empty" message and leaves the tree as it is; no other
\* failure of that undo gets that message.
C10_UndoFolderNotEmpty ==
    UndoCalled("Folder Creation") =>
        LET folder == FolderToBeRemoved(last.args.undoInfo.obj)
            nonEmpty == IsDir(last.before, folder) /\ Children(last.before, folder) # {}
        IN  /\ (nonEmpty /\ last.faults = {})
                 => /\ last.ret.kind = "return"
                    /\ last.ret.val[1] = FALSE
                    /\ HasPart(last.ret.val[2], NotEmptyTemplate)
                    /\ disk = last.before
            /\ (last.ret.kind = "return" /\ ~last.ret.val[1] /\ ~nonEmpty)
                 => ~HasPart(last.ret.val[2], NotEmptyTemplate)
            /\ (last.ret.kind = "return" /\ ~last.ret.val[1] /\ last.faults # {})
                 => ~HasPart(last.ret.val[2], NotEmptyTemplate)

\* The folder of category Ac holds a year folder with a file in it.
C10_Witness ==
    /\ UndoCalled("Folder Creation")
    /\ last.faults = {}
    /\ last.args.undoInfo.obj.directoryName = CategoryAc
    /\ NamesIn(last.before, YearFolder) # {}
    /\ last.ret.val[1] = FALSE
    /\ HasPart(last.ret.val[2], NotEmptyTemplate)

-----------------------------------------------------------------------------
(* Sort and undo, checked under SpecSortUndo. *)

\* hist holds a sort that succeeded and the undo of it, in which no primitive
\* was refused.
SortUndone ==
    /\ Len(hist) = 2
    /\ hist[1].ret.kind = "return"
    /\ hist[1].ret.val[1]
    /\ hist[2].faults = {}

\* C11: after a successful sortFile of invoice n, undoPreviousAction with
\* action 'File Transfer' and the returned undo record succeeds; the invoice is
\* back in the inbox under the name n with its content and absent from the
\* year folder, every other file is as it was before the sort, and nothing
\* but the year folder has been added to the tree.
C11_SortUndoRoundTrip ==
    SortUndone =>
        LET before == hist[1].before
            after == hist[2].after
            n == hist[1].args.invoiceName
            record == hist[1].ret.val[3]
        IN  /\ hist[2].ret.kind = "return"
            /\ hist[2].ret.val[1] = TRUE
            /\ IsFile(after, Join(invoiceFolderPath, <<n>>))
            /\ after[Join(invoiceFolderPath, <<n>>)] = before[Join(invoiceFolderPath, <<n>>)]
            /\ FiledPath(record) \notin DOMAIN after
            /\ FilePaths(after) = FilePaths(before)
            /\ \A p \in FilePaths(before) : after[p] = before[p]
            /\ DOMAIN before \subseteq DOMAIN after
            /\ DOMAIN after \ DOMAIN before \subseteq {YearFolder}

\* The sort had to rename the invoice, and the undo gave it its name back.
C11_Witness ==
    /\ SortUndone
    /\ hist[1].ret.val[3].newInvoiceName # hist[1].ret.val[3].oldInvoiceName
    /\ IsFile(hist[1].after, FiledPath(hist[1].ret.val[3]))
    /\ hist[2].ret.val[1] = TRUE
    /\ disk = hist[2].after
    /\ IsFile(disk, Join(invoiceFolderPath, <<hist[1].args.invoiceName>>))

-----------------------------------------------------------------------------
(* What the operations hand back, checked under Spec. *)

OperationCalled == last.op \in {"sortFile", "createNewFolder", "undoPreviousAction"}

\* C12: every call of sortFile, createNewFolder and undoPreviousAction returns
\* a result whose first element is a boolean and whose second is a message;
\* none throws and none returns without a result.
C12_StructuredResultAlways ==
    OperationCalled =>
        /\ last.ret.kind = "return"
        /\ Len(last.ret.val) >= 2
        /\ last.ret.val[1] \in BOOLEAN
        /\ last.ret.val[2] # Nothing

\* C13: undoPreviousAction returns (success, message, actionId) in every
\* outcome, actionId being the identifier the caller supplied.
C13_UndoReturnsTriple ==
    last.op = "undoPreviousAction" =>
        /\ last.ret.kind = "return"
        /\ Len(last.ret.val) = 3
        /\ last.ret.val[1] \in BOOLEAN
        /\ last.ret.val[3] = last.args.actionId

\* A sortFile call that reaches the Move Engine, where the copy or the delete
\* is refused.
SortMoveRefused(primitive) ==
    /\ last.op = "sortFile"
    /\ last.faults = {primitive}
    /\ primitive \in {"copyFile", "rm"}
    /\ IsFile(last.before, SortSource(last.args))
    /\ IsDir(last.before, SortCategory(last.args))

\* C14: when the Move Engine fails inside sortFile the result is (false,
\* message) without undo record, and the message is the one of the cause:
\* a failed copy and a failed delete are told apart by their messages.
C14_SortNamesMoveFailure ==
    /\ SortMoveRefused("copyFile")
         => /\ last.ret.kind = "return"
            /\ Len(last.ret.val) = 2
            /\ last.ret.val[1] = FALSE
            /\ HasPart(last.ret.val[2], "Failed to copy invoice to new location!")
    /\ SortMoveRefused("rm")
         => /\ last.ret.kind = "return"
            /\ Len(last.ret.val) = 2
            /\ last.ret.val[1] = FALSE
            /\ HasPart(last.ret.val[2], "Failed to remove invoice from original location!")

-----------------------------------------------------------------------------
(* Fetching the next invoice, checked under SpecInbox. *)

\* The positions of the regular files in a listing of the inbox of tree d.
FilePositions(d, listing) ==
    {i \in 1..Len(listing) : IsFile(d, Join(invoiceFolderPath, <<listing[i]>>))}

\* C17: if the listing of the inbox holds a regular file, getInvoice returns
\* the name of the first one in listing order, every folder before it being
\* skipped, with the content of that file, and changes nothing; if it holds
\* none, getInvoice fails with 'No Valid Files Within Invoice Directory.'.
C17_FetchNextInvoice ==
    last.op = "getInvoice" =>
        LET listing == last.args.invoiceFolder
            files == FilePositions(last.before, listing)
        IN  /\ disk = last.before
            /\ files # {} =>
                  LET first == CHOOSE i \in files : \A j \in files : i <= j
                  IN  last.ret = Returned(<<listing[first],
                                            Base64(last.before[Join(invoiceFolderPath,
                                                                   <<listing[first]>>)])>>)
            /\ files = {} =>
                  /\ last.ret.kind = "throw"
                  /\ last.ret.val.message = Msg1("No Valid Files Within Invoice Directory.")

\* A folder is listed first, and a file after the one that was returned.
C17_Witness ==
    /\ last.op = "getInvoice"
    /\ Len(last.args.invoiceFolder) = 3
    /\ FilePositions(last.before, last.args.invoiceFolder) = {2, 3}
    /\ last.ret.kind = "return"
    /\ last.ret.val[1] = last.args.invoiceFolder[2]

-----------------------------------------------------------------------------
(* The failures of the Move Engine, checked under SpecMove. *)

MoveCalled == last.op = "_moveFile"

MoveSource == Norm(last.args.sourcePath)
MoveDestination == Norm(last.args.destinationPath)

\* C18: _moveFile returns failure with cause SourcePathInvalid when the source
\* does not exist, and with cause DestinationPathAlreadyInUse when the source
\* exists and the destination exists too; either way the tree is unchanged.
C18_MovePreconditions ==
    MoveCalled =>
        /\ MoveSource \notin DOMAIN last.before
             => /\ last.ret = Returned(<<FALSE, Msg1("SourcePathInvalid")>>)
                /\ disk = last.before
        /\ (MoveSource \in DOMAIN last.before /\ MoveDestination \in DOMAIN last.before)
             => /\ last.ret = Returned(<<FALSE, Msg1("DestinationPathAlreadyInUse")>>)
                /\ disk = last.before

\* The source is missing while the destination is taken.
C18_Witness ==
    /\ MoveCalled
    /\ MoveSource \notin DOMAIN last.before
    /\ IsFile(last.before, MoveDestination)
    /\ last.ret.val[1] = FALSE

\* Both checks of _moveFile pass: the source exists, the destination does not.
MoveChecksPass ==
    /\ MoveCalled
    /\ MoveSource \in DOMAIN last.before
    /\ MoveDestination \notin DOMAIN last.before

\* C19: when both preconditions hold and the copy fails, _moveFile returns
\* failure with the cause failedToCopyFile, no delete happens and the source
\* is as it was.
C19_MoveCopyFailure ==
    (/\ MoveChecksPass
     /\ ~fsCopyFile(last.before, MoveSource, MoveDestination, last.faults).ok)
        => /\ last.ret = Returned(<<FALSE, Msg1("failedToCopyFile")>>)
           /\ disk = last.before

\* C20: when the copy succeeds and the delete of the source fails, _moveFile
\* returns failure with the cause failedToDeleteFile and the file is at both
\* the source and the destination, the copy being left in place.
C20_MoveDeleteFailure ==
    (/\ MoveChecksPass
     /\ fsCopyFile(last.before, MoveSource, MoveDestination, last.faults).ok
     /\ "rm" \in last.faults)
        => /\ last.ret = Returned(<<FALSE, Msg1("failedToDeleteFile")>>)
           /\ IsFile(disk, MoveSource)
           /\ IsFile(disk, MoveDestination)
           /\ disk[MoveDestination] = last.before[MoveSource]
           /\ disk[MoveSource] = last.before[MoveSource]

-----------------------------------------------------------------------------
(* Requests in flight together, checked under SpecConcurrent. *)

Contents(d) == {d[p] : p \in FilePaths(d)}

\* C15: no step of any interleaving of the calls replaces the content of a
\* file that exists, and no step makes the content of an invoice disappear
\* from the tree.
C15_NoOverwrite ==
    [][/\ \A p \in FilePaths(disk) : p \in DOMAIN disk' => disk'[p] = disk[p]
       /\ Contents(disk) \subseteq Contents(disk')]_vars

BothDone == \A c \in Callers : inflight[c].pc = "done"

\* Both calls are calls of `op` on one target path, and both had found it free
\* before either wrote to it.
RacedFor(op) ==
    /\ \A c \in Callers : inflight[c].op = op
    /\ inflight["first"].target = inflight["second"].target
    /\ \E c \in Callers : inflight[c].contended

Succeeded(f) == f.ret.kind = "return" /\ f.ret.val[1] = TRUE

FailedCleanly(f) == f.ret.kind = "return" /\ f.ret.val[1] = FALSE

\* C16: when two sortFile calls, or two createNewFolder calls, target the same
\* path and both pass their existence check before either writes, exactly one
\* of them succeeds and the other returns a failure result.
C16_OneOfTwoRacersFails ==
    \A op \in {"sortFile", "createNewFolder"} :
        (BothDone /\ RacedFor(op))
            => \E c \in Callers, o \in Callers :
                  /\ c # o
                  /\ Succeeded(inflight[c])
                  /\ FailedCleanly(inflight[o])

-----------------------------------------------------------------------------
(* The Initializer turn by turn: each await of the do-while loop of          *)
(* _validateLetterFolders is a step, and another process may create letter   *)
(* folders in the same tree between the steps.                               *)

MaxExternal == 1

\* Letter folders that may be missing when the loop starts.
InitializerMissing == {"B", "M", "Z"}

InitializerFrame(d) ==
    [pc |-> "validate", invalidLetterFolder |-> Nothing, created |-> <<>>, turns |-> 0,
     failure |-> Nothing, ret |-> Nothing, before |-> d]

\* [pathValidatorResult, invalidLetterFolder] = await this._validatePaths(...)
ValidateTurn(f, d) ==
    LET validated == _validatePaths(d, letterFoldersPathArray(directoriesFolderPath))
    IN  IF validated[1]
        THEN [f EXCEPT !.pc = "done", !.turns = @ + 1,
                       !.ret = <<TRUE, Msg1("All Letter Folders are initialized for ${this._fileSystemName}.")>>]
        ELSE [f EXCEPT !.pc = "mkdir", !.turns = @ + 1, !.invalidLetterFolder = validated[2]]

\* await fs.mkdir(invalidLetterFolder), and the catch a rejection lands in.
MkdirTurn(f, d, faults) ==
    LET made == fsMkdir(d, f.invalidLetterFolder, faults)
    IN  IF ~made.ok
        THEN Out(d, [f EXCEPT !.pc = "done", !.failure = made.err,
                              !.ret = <<FALSE, made.err.message>>])
        ELSE Out(made.disk, [f EXCEPT !.pc = "validate", !.created = Append(@, f.invalidLetterFolder)])

InitInitializer ==
    /\ disk \in {BaseTree(missing) : missing \in SUBSET InitializerMissing}
    /\ phase = "initializer"
    /\ last = NoCall
    /\ hist = <<>>
    /\ inflight = InitializerFrame(disk)

ValidateLetters ==
    /\ phase = "initializer"
    /\ inflight.pc = "validate"
    /\ inflight' = ValidateTurn(inflight, disk)
    /\ UNCHANGED <<disk, phase, last, hist>>

MakeLetter ==
    /\ phase = "initializer"
    /\ inflight.pc = "mkdir"
    /\ \E faults \in {{}, {"mkdir"}} :
        LET out == MkdirTurn(inflight, disk, faults)
        IN  /\ disk' = out.disk
            /\ inflight' = out.ret
    /\ UNCHANGED <<phase, last, hist>>

\* Another process creates a letter folder that is missing; `gap` records that
\* the loop had found this folder missing and had not yet called mkdir for it.
ExternalCreate ==
    /\ phase = "initializer"
    /\ inflight.pc # "done"
    /\ Len(hist) < MaxExternal
    /\ \E i \in 1..Len(alphabetArray) :
        LET path == letterFoldersPathArray(directoriesFolderPath)[i]
        IN  /\ path \notin DOMAIN disk
            /\ disk' = Put(disk, path, Dir)
            /\ hist' = Append(hist, [path |-> path,
                                     gap |-> inflight.pc = "mkdir"
                                             /\ inflight.invalidLetterFolder = path])
    /\ UNCHANGED <<phase, last, inflight>>

NextInitializer == ValidateLetters \/ MakeLetter \/ ExternalCreate

\* The event loop resumes the method after each await.
SpecInitializer ==
    InitInitializer /\ [][NextInitializer]_vars /\ WF_vars(ValidateLetters \/ MakeLetter)

InitializerDone == phase = "initializer" /\ inflight.pc = "done"

\* The letter folders the loop has to create, in the order of the alphabet:
\* those missing at the start that no other process created.
ToBeCreated ==
    SelectSeq(letterFoldersPathArray(directoriesFolderPath),
              LAMBDA p : /\ p \notin DOMAIN inflight.before
                         /\ \A k \in 1..Len(hist) : hist[k].path # p)

InitializerResult ==
    /\ inflight.turns = Len(inflight.created) + 1
    /\ IF inflight.failure = Nothing
       THEN /\ inflight.ret[1] = TRUE
            /\ AllLetterFolders(disk)
            /\ inflight.created = ToBeCreated
            /\ DOMAIN disk = DOMAIN inflight.before
                                \cup {letterFoldersPathArray(directoriesFolderPath)[i] :
                                          i \in 1..Len(alphabetArray)}
       ELSE /\ inflight.ret = <<FALSE, inflight.failure.message>>
            /\ Len(inflight.created) < Len(ToBeCreated) + Len(hist)
            /\ \A k \in 1..Len(inflight.created) : inflight.created[k] = ToBeCreated[k]

\* C21: from any set of letter folders present, _validateLetterFolders
\* terminates; when no creation is refused it reports ready with all 26 folders
\* present, having created exactly the missing ones, one per turn of the loop
\* and in alphabetical order; when a creation is refused it reports not ready
\* with the message of the refusal.
C21_InitializerProgress ==
    /\ [](InitializerDone => InitializerResult)
    /\ <>InitializerDone

\* Three folders were missing and were created in three turns.
C21_Witness ==
    /\ InitializerDone
    /\ inflight.ret[1] = TRUE
    /\ Len(inflight.created) = 3
    /\ hist = <<>>

\* C22: when another process creates a letter folder between the loop finding
\* it missing and the loop's own mkdir for it, the initializer still ends
\* reporting ready.
C22_ExternalCreationTolerated ==
    (InitializerDone /\ \E k \in 1..Len(hist) : hist[k].gap) => inflight.ret[1] = TRUE

-----------------------------------------------------------------------------
(* startBackend with its two namespaces: the settings file is read, each     *)
(* namespace loads its two roots in turn, and only then the server listens.  *)

pageNames == <<"customer-scanned-documents", "accounts-payables">>

\* The roots a settings file may give the second namespace.
invoiceFolderPath2 == << <<"i", "n", "2">> >>
directoriesFolderPath2 == << <<"d", "i", "2">> >>

\* DirectoryPaths.json: present or not, and the two roots of each namespace;
\* a file may name one path for both roots of a namespace.
SettingsFiles ==
    {[exists |-> e,
      paths |-> <<[invoices |-> i1, directories |-> directoriesFolderPath],
                  [invoices |-> i2, directories |-> directoriesFolderPath2]>>] :
        <<e, i1, i2>> \in BOOLEAN \X {invoiceFolderPath, directoriesFolderPath}
                                  \X {invoiceFolderPath2, directoriesFolderPath2}}

\* The tree of the first namespace with that of the second beside it: its
\* roots where `roots` names them, its letter folders but those of `missing`.
WithSecondNamespace(d, roots, missing) ==
    LET letters == IF directoriesFolderPath2 \in roots
                   THEN {Join(directoriesFolderPath2, << <<alphabetArray[i]>> >>) :
                            i \in {j \in 1..Len(alphabetArray) : alphabetArray[j] \notin missing}}
                   ELSE {}
    IN  [p \in DOMAIN d \cup roots \cup letters |-> IF p \in DOMAIN d THEN d[p] ELSE Dir]

StartupTrees ==
    {WithSecondNamespace(d, roots, missing) :
        <<d, roots, missing>> \in
            {BaseTree({}), BaseTree({"B"}), Drop(BaseTree({}), invoiceFolderPath)}
            \X (SUBSET {invoiceFolderPath2, directoriesFolderPath2})
            \X {{}, {"Z"}}}

StartupFrame(settings) ==
    [pc |-> "settings", page |-> 1, loaded |-> <<>>, served |-> {}, settings |-> settings]

\* if (!validationResult) throw new Error('Paths Settings File does not exist!')
StartupAfterSettings(f) ==
    IF ~f.settings.exists THEN [f EXCEPT !.pc = "failed"] ELSE [f EXCEPT !.pc = "load"]

\* Mutant: a namespace that fails to load is passed over.
StartupSkipsFailedPage(f, validationResult) ==
    [f EXCEPT !.loaded = Append(@, validationResult),
              !.page = @ + 1,
              !.pc = IF f.page = Len(pageNames) THEN "listen" ELSE "load"]

\* if (!validationResult.valid) throw new Error(validationResult.message)
StartupAfterLoad(f, validationResult) ==
    IF ~validationResult.valid
    THEN [f EXCEPT !.loaded = Append(@, validationResult), !.pc = "failed"]
    ELSE [f EXCEPT !.loaded = Append(@, validationResult),
                   !.page = @ + 1,
                   !.pc = IF f.page = Len(pageNames) THEN "listen" ELSE "load"]

InitStartup ==
    /\ disk \in StartupTrees
    /\ phase = "startup"
    /\ last = NoCall
    /\ hist = <<>>
    /\ inflight \in {StartupFrame(s) : s \in SettingsFiles}

ReadSettings ==
    /\ phase = "startup"
    /\ inflight.pc = "settings"
    /\ inflight' = StartupAfterSettings(inflight)
    /\ UNCHANGED <<disk, phase, last, hist>>

LoadPage ==
    /\ phase = "startup"
    /\ inflight.pc = "load"
    /\ \E faults \in {{}, {"mkdir"}} :
        LET paths == inflight.settings.paths[inflight.page]
            out == loadDirectoryPaths(disk, paths.invoices, paths.directories, faults)
        IN  /\ disk' = out.disk
            /\ inflight' = StartupAfterLoad(inflight,
                                            [page |-> pageNames[inflight.page],
                                             invoices |-> paths.invoices,
                                             directories |-> paths.directories,
                                             before |-> disk,
                                             valid |-> out.ret.val.valid,
                                             message |-> out.ret.val.message])
    /\ UNCHANGED <<phase, last, hist>>

\* backEnd.listen(port, ...)
Listen ==
    /\ phase = "startup"
    /\ inflight.pc = "listen"
    /\ inflight' = [inflight EXCEPT !.pc = "listening"]
    /\ UNCHANGED <<disk, phase, last, hist>>

\* A request for a namespace reaches its route handler.
ServeRequest ==
    /\ phase = "startup"
    /\ inflight.pc = "listening"
    /\ \E k \in 1..Len(pageNames) :
        inflight' = [inflight EXCEPT !.served = @ \cup {pageNames[k]}]
    /\ UNCHANGED <<disk, phase, last, hist>>

NextStartup == ReadSettings \/ LoadPage \/ Listen \/ ServeRequest

SpecStartup == InitStartup /\ [][NextStartup]_vars

\* C23: loadDirectoryPaths reports valid only if the two roots both exist
\* and are distinct paths.
C23_RootsExistAndDiffer ==
    phase = "startup"
        => \A k \in 1..Len(inflight.loaded) :
               inflight.loaded[k].valid
                   => /\ Norm(inflight.loaded[k].invoices) \in DOMAIN inflight.loaded[k].before
                      /\ Norm(inflight.loaded[k].directories) \in DOMAIN inflight.loaded[k].before
                      /\ Norm(inflight.loaded[k].invoices) # Norm(inflight.loaded[k].directories)

StartupEnded == phase = "startup" /\ inflight.pc \in {"failed", "listening"}

LoadedValid(k) == k <= Len(inflight.loaded) /\ inflight.loaded[k].valid
LoadedInvalid(k) == k <= Len(inflight.loaded) /\ ~inflight.loaded[k].valid

\* C24 as stated: a namespace that failed to load never accepts a request, and
\* a namespace that loaded accepts requests once startup has ended, whatever
\* became of the other.
C24_FatalForThatNamespaceOnly ==
    /\ \A k \in 1..Len(pageNames) :
           (phase = "startup" /\ LoadedInvalid(k)) => pageNames[k] \notin inflight.served
    /\ \A k \in 1..Len(pageNames) :
           (StartupEnded /\ LoadedValid(k)) => inflight.pc = "listening"

\* C24, amended: a namespace that failed to load never accepts a request, and
\* its failure is fatal for the whole service: the server listens, and any
\* namespace accepts a request, only when the settings file was read and every
\* namespace loaded.
C24_FailureStopsTheService ==
    phase = "startup"
        => /\ \A k \in 1..Len(pageNames) : LoadedInvalid(k) => pageNames[k] \notin inflight.served
           /\ (inflight.pc \in {"listen", "listening"} \/ inflight.served # {})
                  => /\ inflight.settings.exists
                     /\ \A k \in 1..Len(pageNames) : LoadedValid(k)
           /\ (\E k \in 1..Len(pageNames) : LoadedInvalid(k))
                  => inflight.pc = "failed" /\ inflight.served = {}

\* The first namespace loaded, the second did not, and startup has ended.
C24_Witness ==
    /\ StartupEnded
    /\ LoadedValid(1)
    /\ LoadedInvalid(2)

-----------------------------------------------------------------------------
(* sortFile before the move, checked under Spec. *)

SortPathsValid ==
    /\ Norm(SortCategory(last.args)) \in DOMAIN last.before
    /\ Norm(SortSource(last.args)) \in DOMAIN last.before

SortFailed == last.ret.kind = "return" /\ last.ret.val[1] = FALSE

Directories(d) == {p \in DOMAIN d : d[p] = Dir}

\* C25: when the category folder or the inbox file does not exist as sortFile
\* validates them, sortFile returns a failure and the tree is as it was.
C25_SortValidationFrame ==
    (last.op = "sortFile" /\ ~SortPathsValid)
        => /\ SortFailed
           /\ disk = last.before

\* The inbox file is missing; the category exists and has no year folder yet.
C25_Witness ==
    /\ last.op = "sortFile"
    /\ last.faults = {}
    /\ Norm(SortCategory(last.args)) \in DOMAIN last.before
    /\ Norm(SortSource(last.args)) \notin DOMAIN last.before
    /\ Norm(SortYear(last.args)) \notin DOMAIN last.before

\* C26: when the year folder is missing and its creation is refused, sortFile
\* returns a failure and the tree is as it was, the invoice still in the inbox;
\* when the year folder exists, no folder is created and the sort goes on into
\* that folder even where mkdir would be refused.
C26_YearFolderFailureAborts ==
    (last.op = "sortFile" /\ SortPathsValid)
        => /\ (Norm(SortYear(last.args)) \notin DOMAIN last.before /\ "mkdir" \in last.faults)
                  => /\ SortFailed
                     /\ disk = last.before
                     /\ Norm(SortSource(last.args)) \in DOMAIN disk
           /\ (IsDir(last.before, Norm(SortYear(last.args))) /\ last.faults \subseteq {"mkdir"})
                  => /\ Directories(disk) = Directories(last.before)
                     /\ IsFile(last.before, Norm(SortSource(last.args)))
                            => /\ last.ret.kind = "return"
                               /\ last.ret.val[1] = TRUE
                               /\ IsFile(disk, Join(Norm(SortYear(last.args)),
                                                    <<last.ret.val[3].newInvoiceName>>))

\* The creation of the year folder was refused with the invoice in the inbox.
C26_Witness ==
    /\ last.op = "sortFile"
    /\ "mkdir" \in last.faults
    /\ IsFile(last.before, Norm(SortSource(last.args)))
    /\ IsDir(last.before, Norm(SortCategory(last.args)))
    /\ Norm(SortYear(last.args)) \notin DOMAIN last.before
    /\ SortFailed

-----------------------------------------------------------------------------
(* A folder creation and its undo: the caller keeps the response of          *)
(* createNewFolder and hands its undo record back, once or again; a sort     *)
(* into the new folder may come in between.                                  *)

LetterB == <<"B">>

InitCreateUndo ==
    /\ disk \in InitialTrees
    /\ phase = "createUndo"
    /\ last = NoCall
    /\ hist = <<>>
    /\ inflight = NoneInFlight

HeldCall(op, args, faults, out) ==
    [op |-> op, args |-> args, faults |-> faults, before |-> disk, after |-> out.disk,
     ret |-> out.ret]

\* createNewFolder; the caller keeps the response.
CreateHeld ==
    /\ phase = "createUndo"
    /\ hist = <<>>
    /\ \E directoryFolderName \in {CategoryAc, CategoryBb},
          letterFolder \in {LetterA, LetterB},
          faults \in {{}, {"mkdir"}} :
        LET requestQueryParameters ==
                [directoryFolderName |-> directoryFolderName, letterFolder |-> letterFolder]
            out == createNewFolder(disk, requestQueryParameters, faults)
        IN  /\ Call("createNewFolder", requestQueryParameters, faults, out)
            /\ hist' = Append(hist, HeldCall("createNewFolder", requestQueryParameters, faults, out))
            /\ phase' = phase

FolderCreated ==
    /\ hist # <<>>
    /\ hist[1].ret.kind = "return"
    /\ hist[1].ret.val[1]

\* sortFile into the folder that was created.
SortIntoCreated ==
    /\ phase = "createUndo"
    /\ Len(hist) = 1
    /\ FolderCreated
    /\ \E invoiceName \in NamesIn(disk, invoiceFolderPath) :
        LET queries == [directoryFolderPath |-> <<hist[1].args.letterFolder,
                                                  hist[1].args.directoryFolderName>>,
                        directoryName |-> hist[1].args.directoryFolderName,
                        invoiceName |-> invoiceName,
                        year |-> Year24]
            out == sortFile(disk, queries, {})
        IN  /\ Call("sortFile", queries, {}, out)
            /\ hist' = Append(hist, HeldCall("sortFile", queries, {}, out))
            /\ phase' = phase

\* The response of a creation that succeeded, as the /create-new-folder route
\* sends it.
HeldFolderUndoRequest(created) ==
    [action |-> "Folder Creation", actionId |-> "id",
     undoInfo |-> [parses |-> TRUE, obj |-> created.ret.val[3]]]

UndosOf(h) == Len(SelectSeq(h, LAMBDA e : e.op = "undoPreviousAction"))

\* undoPreviousAction with the record the creation returned.
UndoCreated ==
    /\ phase = "createUndo"
    /\ FolderCreated
    /\ UndosOf(hist) < MaxUndos
    /\ \E faults \in {{}, {"rmdir"}} :
        LET requestQueryParameters == HeldFolderUndoRequest(hist[1])
            out == undoPreviousAction(disk, requestQueryParameters, faults)
        IN  /\ Call("undoPreviousAction", requestQueryParameters, faults, out)
            /\ hist' = Append(hist, HeldCall("undoPreviousAction", requestQueryParameters, faults, out))
            /\ phase' = phase

NextCreateUndo == CreateHeld \/ SortIntoCreated \/ UndoCreated \/ Respond

SpecCreateUndo == InitCreateUndo /\ [][NextCreateUndo]_vars

\* The path createNewFolder builds from its request.
RequestedFolder(requestQueryParameters) ==
    Norm(Join(Join(directoriesFolderPath, <<requestQueryParameters.letterFolder>>),
              <<requestQueryParameters.directoryFolderName>>))

\* C27: createNewFolder on a path that does not exist, in a letter folder that
\* does, succeeds when mkdir is not refused, creates that folder and nothing
\* else, and returns the record {directoryName, letterFolder}; an undo of
\* 'Folder Creation' with that record while the folder is empty, rmdir not
\* refused, succeeds and leaves the tree as it was before the creation.
C27_CreateUndoRoundTrip ==
    (phase = "createUndo" /\ hist # <<>>)
        => LET created == hist[1]
               path == RequestedFolder(created.args)
           IN  /\ (/\ path \notin DOMAIN created.before
                   /\ IsDir(created.before, Parent(path))
                   /\ created.faults = {})
                      => /\ FolderCreated
                         /\ created.after = Put(created.before, path, Dir)
                         /\ created.ret.val[3] = [directoryName |-> created.args.directoryFolderName,
                                                  letterFolder |-> created.args.letterFolder]
               /\ \A k \in 2..Len(hist) :
                      (/\ hist[k].op = "undoPreviousAction"
                       /\ hist[k].faults = {}
                       /\ IsDir(hist[k].before, path)
                       /\ Children(hist[k].before, path) = {})
                          => /\ hist[k].ret.kind = "return"
                             /\ hist[k].ret.val[1] = TRUE
                             /\ hist[k].after = Drop(hist[k].before, path)
                             /\ k = 2 => hist[k].after = created.before

\* Folder B/Bb was created and the undo removed it again.
C27_Witness ==
    /\ phase = "createUndo"
    /\ Len(hist) = 2
    /\ FolderCreated
    /\ hist[1].args.letterFolder = LetterB
    /\ hist[2].op = "undoPreviousAction"
    /\ hist[2].ret.val[1] = TRUE
    /\ disk = hist[1].before

\* C28: an undo of 'Folder Creation' whose folder does not exist returns a
\* failure whose message says that the folder does not exist, and the tree is
\* as it was.
C28_UndoOfMissingFolder ==
    phase = "createUndo"
        => \A k \in 1..Len(hist) :
               (/\ hist[k].op = "undoPreviousAction"
                /\ RequestedFolder(hist[1].args) \notin DOMAIN hist[k].before)
                   => /\ hist[k].ret.kind = "return"
                      /\ hist[k].ret.val[1] = FALSE
                      /\ HasPart(hist[k].ret.val[2],
                                 "Folder ${directoryName} does not exists within the ${letterFolder} directory.")
                      /\ hist[k].after = hist[k].before

\* The same record is undone a second time.
C28_Witness ==
    /\ phase = "createUndo"
    /\ Len(hist) = 3
    /\ hist[2].op = "undoPreviousAction"
    /\ hist[2].ret.val[1] = TRUE
    /\ hist[3].op = "undoPreviousAction"
    /\ hist[3].ret.val[1] = FALSE
    /\ disk = hist[1].before

-----------------------------------------------------------------------------
(* The folders the requests may remove, checked under Spec. *)

\* C29: once initialization has reported ready, all 26 letter folders exist
\* in every state the requests lead to, whatever records the caller supplies.
C29_LetterFoldersNeverDeleted ==
    phase = "listening" => AllLetterFolders(disk)

\* The folders a call has removed.
RemovedFolders == Directories(last.before) \ Directories(disk)

IsYearFolder(p) == Len(p) = Len(directoriesFolderPath) + 3

\* C30: no operation but the undo of 'Folder Creation' removes a folder, that
\* undo removes a folder only when it is empty, and no operation removes a
\* year folder.
C30_FolderRemovalConfined ==
    last # NoCall
        => \A p \in RemovedFolders :
               /\ last.op = "undoPreviousAction"
               /\ last.args.action = "Folder Creation"
               /\ Children(last.before, p) = {}
               /\ ~IsYearFolder(p)

-----------------------------------------------------------------------------
(* The rewrite rule of the Collision Resolver, checked under SpecResolver. *)

\* s[i..e] is a parenthesized integer: "(", one or more digits, ")".
ParenthesizedInteger(s, i, e) ==
    /\ 1 <= i /\ i + 1 < e /\ e <= Len(s)
    /\ s[i] = "("
    /\ s[e] = ")"
    /\ \A j \in (i + 1)..(e - 1) : IsDigit(s[j])

HasParenthesizedInteger(s) ==
    \E i \in 1..Len(s), e \in 1..Len(s) : ParenthesizedInteger(s, i, e)

\* t is what the rule makes of s: without a parenthesized integer, the text
\* before the last dot of s (nothing when s has no dot) followed by " (2).pdf";
\* with one, s with the first (n) replaced by (n+1).
Rewritten(s, t) ==
    IF ~HasParenthesizedInteger(s)
    THEN \/ \E k \in 1..Len(s) :
               /\ s[k] = "."
               /\ \A j \in (k + 1)..Len(s) : s[j] # "."
               /\ t = SubSeq(s, 1, k - 1) \o <<" ", "(", "2", ")", ".", "p", "d", "f">>
         \/ /\ \A k \in 1..Len(s) : s[k] # "."
            /\ t = <<" ", "(", "2", ")", ".", "p", "d", "f">>
    ELSE \E i \in 1..Len(s), e \in 1..Len(s) :
             /\ ParenthesizedInteger(s, i, e)
             /\ \A i2 \in 1..(i - 1), e2 \in 1..Len(s) : ~ParenthesizedInteger(s, i2, e2)
             /\ t = SubSeq(s, 1, i)
                        \o NumberToString(parseInt(SubSeq(s, i + 1, e - 1)) + 1)
                        \o SubSeq(s, e, Len(s))

\* The name after k turns of the renaming loop.
RECURSIVE Renamed(_, _)
Renamed(invoiceName, k) ==
    IF k = 0 THEN invoiceName ELSE NextCopyName(Renamed(invoiceName, k - 1))

\* C31: when the desired name exists in the folder, the resolver returns the
\* first name that does not exist in the folder of the sequence in which each
\* name is the rewrite of the one before: a name without a parenthesized integer
\* becomes "<text before its last dot> (2).pdf" whatever its extension, a name
\* with one has the first (n) replaced by (n+1).
C31_RewriteRule ==
    (ResolverCalled /\ Exists(last.before, last.args.folderPath, last.args.invoiceName))
        => \E k \in 1..(Cardinality(NamesIn(last.before, last.args.folderPath)) + 1) :
               /\ last.ret.val[2] = Renamed(last.args.invoiceName, k)
               /\ ~Exists(last.before, last.args.folderPath, Renamed(last.args.invoiceName, k))
               /\ \A j \in 1..k :
                      /\ Rewritten(Renamed(last.args.invoiceName, j - 1),
                                   Renamed(last.args.invoiceName, j))
                      /\ j < k => Exists(last.before, last.args.folderPath,
                                         Renamed(last.args.invoiceName, j))

\* a.txt is taken and so is a (2).pdf: the result is a (3).pdf.
C31_Witness ==
    /\ ResolverCalled
    /\ last.args.invoiceName = NameT
    /\ Exists(last.before, last.args.folderPath, NameT)
    /\ Exists(last.before, last.args.folderPath, NameA2)
    /\ last.ret.val[2] = NameA3

-----------------------------------------------------------------------------
(* What a successful undo has done, checked under Spec. *)

UndoReportsSuccess ==
    /\ last.op = "undoPreviousAction"
    /\ last.ret.kind = "return"
    /\ last.ret.val[1] = TRUE

\* The filed file of the record has left its folder and the inbox has gained
\* a file of its content.
TransferReversed ==
    LET filed == Norm(InvoiceToBeRemoved(last.args.undoInfo.obj))
    IN  /\ IsFile(last.before, filed)
        /\ filed \notin DOMAIN disk
        /\ \E p \in DOMAIN disk \ DOMAIN last.before :
               /\ Parent(p) = invoiceFolderPath
               /\ disk[p] = last.before[filed]

FolderRemoved ==
    LET folder == FolderToBeRemoved(last.args.undoInfo.obj)
    IN  /\ IsDir(last.before, folder)
        /\ folder \notin DOMAIN disk

\* C32: undoPreviousAction reports success only if the reversal took effect in
\* that call: for 'File Transfer' the filed file is back in the inbox, for
\* 'Folder Creation' the folder is removed; a failure of the Move Engine and
\* any other action are reported as failures.
C32_UndoSuccessSound ==
    UndoReportsSuccess
        => \/ last.args.action = "File Transfer" /\ TransferReversed
           \/ last.args.action = "Folder Creation" /\ FolderRemoved

-----------------------------------------------------------------------------
(* The same transfer undone twice, checked under SpecSortUndo. *)

\* The record of a successful sort was undone, the undo reported success, and
\* the same record was undone again.
UndoneTwice ==
    /\ phase = "sortUndo"
    /\ Len(hist) >= 3
    /\ hist[2].ret.kind = "return"
    /\ hist[2].ret.val[1] = TRUE

\* C33: after an undo of a 'File Transfer' that reported success, a second
\* undo with the same record returns failure and leaves the tree as it was, and
\* the invoice is in the inbox once and nowhere else.
C33_SecondUndoFails ==
    UndoneTwice
        => LET content == hist[1].before[Join(invoiceFolderPath, <<hist[1].args.invoiceName>>)]
           IN  /\ hist[3].ret.kind = "return"
               /\ hist[3].ret.val[1] = FALSE
               /\ hist[3].after = hist[3].before
               /\ Cardinality({p \in FilePaths(hist[3].after) :
                                  Parent(p) = invoiceFolderPath /\ hist[3].after[p] = content}) = 1

-----------------------------------------------------------------------------
(* The frame of a sort, checked under Spec. *)

SortSucceeded ==
    /\ last.op = "sortFile"
    /\ last.ret.kind = "return"
    /\ last.ret.val[1] = TRUE

\* C34: a successful sortFile of invoice n into category C and year Y removes
\* the inbox entry n, leaves the folder C/Y in existence and adds one file to
\* it, which has the content of n; every other file and folder is where it was
\* and every other file has the content it had.
C34_SortFrame ==
    SortSucceeded
        => LET source == Norm(SortSource(last.args))
               year == Norm(SortYear(last.args))
               filed == Join(year, <<last.ret.val[3].newInvoiceName>>)
           IN  /\ IsFile(last.before, source)
               /\ filed \notin DOMAIN last.before
               /\ DOMAIN disk = (DOMAIN last.before \ {source}) \cup {year, filed}
               /\ IsDir(disk, year)
               /\ disk[filed] = last.before[source]
               /\ \A p \in DOMAIN last.before \ {source} : disk[p] = last.before[p]

\* The sort created the year folder and left another inbox file alone.
C34_Witness ==
    /\ SortSucceeded
    /\ Norm(SortYear(last.args)) \notin DOMAIN last.before
    /\ Cardinality(NamesIn(last.before, invoiceFolderPath)) >= 2

-----------------------------------------------------------------------------
(* Two sorts of one invoice, checked under SpecConcurrent. *)

\* Both calls were sortFile calls for the same inbox file, category and year.
SameInvoiceSortedTwice ==
    /\ phase = "concurrent"
    /\ BothDone
    /\ \A c \in Callers : inflight[c].op = "sortFile"
    /\ inflight["first"].args = inflight["second"].args

\* The paths at which the content of the sorted invoice is found; the files of
\* the trees the model starts from all differ in content.
CopiesOfSortedInvoice ==
    {p \in FilePaths(disk) :
        \E q \in FilePaths(disk) :
            /\ q # p
            /\ disk[q] = disk[p]}

\* C35: once two sortFile calls for the same inbox file, category and year
\* have both finished, the invoice exists at one path only, and at most one of
\* the two calls reports success.
C35_NoDuplicateUnderConcurrentSorts ==
    SameInvoiceSortedTwice
        => /\ CopiesOfSortedInvoice = {}
           /\ ~(Succeeded(inflight["first"]) /\ Succeeded(inflight["second"]))











====
